---------------------------- MODULE Spec2Model ----------------------------
(***************************************************************************)
(* Model of the geophysical simulation layer of rotating-earth-web         *)
(* (src/src/main.js, second module of the file, lines 457-1440).           *)
(*                                                                         *)
(* Number representation                                                   *)
(*   JavaScript numbers are modelled in fixed point:                       *)
(*   - angles (latitudes, longitudes, subsolar coordinates) in units of    *)
(*     2^-20 degree (DegUnit units per degree).  On this grid the rounding *)
(*     of a Float32Array store is exact for |x| >= 16 degrees (a float32   *)
(*     has 24 significant bits); see Fround;                               *)
(*   - dimensionless quantities (sines, gaussians, speeds u and v, mean    *)
(*     speeds, colour channels, positions) in units of 1/Unit;             *)
(*   - wall-clock time in milliseconds; the simulated time                 *)
(*     state.simulation.timeMs as the pair (startMs, timeMs): startMs is   *)
(*     the value of Date.now() when the module was loaded, split in        *)
(*     (days since 1970-01-01, millisecond of the day), and timeMs is the  *)
(*     number of milliseconds added to it since.                           *)
(*   Two quantities are kept as the doubles they are in the source, with   *)
(*   the rounding of every addition: state.simulation.readoutTimer (see    *)
(*   Readouts) and the argument and result of normalizeLongitude where the *)
(*   function itself is looked at (see normalizeLongitudeDouble).          *)
(***************************************************************************)
EXTENDS Integers, Sequences, FiniteSets, TLC

VARIABLES
    startMs,        \* Date.now() at module load: [day, ms]
    timeMs,         \* state.simulation.timeMs - startMs, in ms
    timeScale,      \* state.simulation.timeScale
    readoutTimer,   \* state.simulation.readoutTimer, a double [hi, lo]
    system,         \* state.system: the four toggles
    windLayer,      \* windLayer: NoLayer (null) or a flow layer
    currentLayer,   \* currentLayer: NoLayer (null) or a flow layer
    earthMaterial,  \* earthMaterial: NoMaterial (null) or [shininess, specular]
    sunLight,       \* sunLight: [intensity, source of its direction]
    clock,          \* THREE.Clock: [running, elapsedTime (ms)]
    frame,          \* number of animate() calls made by the animation loop
    boot,           \* [bootDone, meshesReady, loop (setAnimationLoop called)]
    cloudsMesh,     \* cloudsMesh: NoMesh (null) or [rotationY (10^-9 rad)]
    nightLightsMesh, \* nightLightsMesh: NoMesh (null) or [sunDirection uniform]
    atmosphereMesh, \* atmosphereMesh: NoMesh (null) or [sunDirection uniform]
    scratch,        \* scratch: [sunDirection, staticSun]
    aligned,        \* the context object alignInitialEarthFacing was returned
    readout,        \* text of the two readouts: [utc, flow]
    loading,        \* the texture requests, the boot timer and their race
    probe           \* argument and result of the pure function under check

vars == <<startMs, timeMs, timeScale, readoutTimer, system, windLayer,
          currentLayer, earthMaterial, sunLight, clock, frame, boot, cloudsMesh,
          nightLightsMesh, atmosphereMesh, scratch, aligned, readout, loading,
          probe>>

\* The variables of the scene objects built at boot and of the readouts.
sceneVars == <<cloudsMesh, nightLightsMesh, atmosphereMesh, scratch, aligned, readout,
               loading>>

-----------------------------------------------------------------------------
(* Fixed-point arithmetic *)

\* Units per degree: 2^20.
DegUnit == 1024 * 1024

\* Units per 1.0 of a dimensionless quantity.
Unit == 100 * 100

MsPerDay == 24 * 3600 * 1000

Abs(x) == IF x < 0 THEN -x ELSE x

Sign(x) == IF x > 0 THEN 1 ELSE IF x < 0 THEN -1 ELSE 0

Min(a, b) == IF a < b THEN a ELSE b

Max(a, b) == IF a > b THEN a ELSE b

\* a / b rounded to the nearest integer (b > 0), half away from zero.
RDiv(a, b) == IF a >= 0 THEN (a + b \div 2) \div b
                        ELSE -((-a + b \div 2) \div b)

\* a * b / c rounded, computed without leaving 32 bits when |b| * c < 2^31.
MulDiv(a, b, c) ==
    LET s  == Sign(a) * Sign(b)
        aa == Abs(a)
        bb == Abs(b)
    IN  s * ((aa \div c) * bb + RDiv((aa % c) * bb, c))

\* JavaScript's % : the remainder has the sign of the dividend.
JsMod(a, b) == IF a >= 0 THEN a % b ELSE -((-a) % b)

\* Integer square root (floor).
RECURSIVE IsqrtIter(_, _, _)
IsqrtIter(n, lo, hi) ==
    IF lo >= hi THEN lo
    ELSE LET mid == (lo + hi + 1) \div 2
         IN  IF mid * mid <= n THEN IsqrtIter(n, mid, hi)
                               ELSE IsqrtIter(n, lo, mid - 1)

Isqrt(n) == IsqrtIter(n, 0, 46340)

\* Math.hypot(u, v), u and v in 1/Unit.
Hypot(u, v) == Isqrt(u * u + v * v)

\* sin(d degrees) * Unit for d = 0..90.
SinTable == <<
    0, 175, 349, 523, 698, 872, 1045, 1219, 1392, 1564, 1736, 1908, 2079,
    2250, 2419, 2588, 2756, 2924, 3090, 3256, 3420, 3584, 3746, 3907, 4067,
    4226, 4384, 4540, 4695, 4848, 5000, 5150, 5299, 5446, 5592, 5736, 5878,
    6018, 6157, 6293, 6428, 6561, 6691, 6820, 6947, 7071, 7193, 7314, 7431,
    7547, 7660, 7771, 7880, 7986, 8090, 8192, 8290, 8387, 8480, 8572, 8660,
    8746, 8829, 8910, 8988, 9063, 9135, 9205, 9272, 9336, 9397, 9455, 9511,
    9563, 9613, 9659, 9703, 9744, 9781, 9816, 9848, 9877, 9903, 9925, 9945,
    9962, 9976, 9986, 9994, 9998, 10000 >>

\* sin of an angle in [0, 90] degrees, linear interpolation within a degree.
SinQuadrant(a) ==
    LET d == a \div DegUnit
        f == (a % DegUnit) \div 1024
    IN  IF d >= 90 THEN SinTable[91]
        ELSE SinTable[d + 1] + ((SinTable[d + 2] - SinTable[d + 1]) * f) \div 1024

\* Math.sin(x * DEG2RAD) * Unit, x in 2^-20 degree.
SinDeg(x) ==
    LET r == x % (360 * DegUnit)
    IN  IF r <= 90 * DegUnit THEN SinQuadrant(r)
        ELSE IF r <= 180 * DegUnit THEN SinQuadrant(180 * DegUnit - r)
        ELSE IF r <= 270 * DegUnit THEN -SinQuadrant(r - 180 * DegUnit)
        ELSE -SinQuadrant(360 * DegUnit - r)

\* Math.cos(x * DEG2RAD) * Unit, x in 2^-20 degree.
CosDeg(x) == SinDeg(x + 90 * DegUnit)

\* exp(-n/4) * Unit for n = 0..49.
ExpTable == <<
    10000, 7788, 6065, 4724, 3679, 2865, 2231, 1738, 1353, 1054, 821, 639,
    498, 388, 302, 235, 183, 143, 111, 87, 67, 52, 41, 32, 25, 19, 15, 12,
    9, 7, 6, 4, 3, 3, 2, 2, 1, 1, 1, 1, 0, 0, 0, 0, 0, 0, 0, 0, 0, 0 >>

\* Math.exp(-t) * Unit for t >= 0 given as t * 4096: exp(-n/4) from the
\* table times the series 1 - g + g^2/2 - g^3/6 + g^4/24 of the remainder.
ExpNeg(t) ==
    LET n  == t \div 1024
        g  == RDiv((t % 1024) * Unit, 4096)
        g2 == (g * g) \div (2 * Unit)
        p  == Unit - g + g2 - (g2 * g) \div (3 * Unit) + (g2 * g2) \div (6 * Unit)
    IN  IF n >= 49 THEN 0 ELSE RDiv(ExpTable[n + 1] * p, Unit)

\* exp(-(d / width)^2) * Unit for a distance d in 2^-20 degree and a width in
\* degrees; beyond 3.5 widths the value is below half a unit.
GaussOfDistance(d, width) ==
    LET x == RDiv(RDiv(Abs(d), 1024) * 4, width)    \* |d| / width * 4096
    IN  IF x >= 14336 THEN 0 ELSE ExpNeg((x * x) \div 4096)

\* Float32Array store: Math.fround of an angle in 2^-20 degree.  A float32
\* in [2^k, 2^(k+1)) is a multiple of 2^(k-23): 16 units from 128 degrees on,
\* 8 from 64, 4 from 32, 2 from 16; round to nearest, ties to even.
Fround(x) ==
    LET a    == Abs(x)
        step == IF a >= 128 * DegUnit THEN 16
                ELSE IF a >= 64 * DegUnit THEN 8
                ELSE IF a >= 32 * DegUnit THEN 4
                ELSE IF a >= 16 * DegUnit THEN 2
                ELSE 1
        q    == a \div step
        r    == a % step
        up   == IF 2 * r > step THEN 1
                ELSE IF 2 * r = step THEN q % 2
                ELSE 0
    IN  Sign(x) * (q + up) * step

-----------------------------------------------------------------------------
(* Helpers of main.js *)

\* clamp(value, min, max)
clamp(value, min, max) == Min(max, Max(min, value))

\* normalizeLongitude(lon), lon in 2^-20 degree
normalizeLongitude(lon) ==
    LET output == JsMod(JsMod(lon + 180 * DegUnit, 360 * DegUnit) + 360 * DegUnit,
                        360 * DegUnit) - 180 * DegUnit
    IN  IF output = -180 * DegUnit THEN 180 * DegUnit ELSE output

\* gaussian(value, center, width): value and center in 2^-20 degree, width in
\* degrees
gaussian(value, center, width) == GaussOfDistance(value - center, width)

\* periodicLonGaussian(lon, center, width)
periodicLonGaussian(lon, center, width) ==
    LET d     == JsMod(Abs(lon - center), 360 * DegUnit)
        delta == IF d > 180 * DegUnit THEN 360 * DegUnit - d ELSE d
    IN  GaussOfDistance(delta, width)

\* The three components written by writeLatLonToArray and latLonToVector, in
\* 1/Unit; radius in 1/Unit.
latLonToVector(latDeg, lonDeg, radius) ==
    LET cosLat == CosDeg(latDeg)
        rc     == RDiv(radius * cosLat, Unit)
    IN  << RDiv(-rc * CosDeg(lonDeg), Unit),
           RDiv(radius * SinDeg(latDeg), Unit),
           RDiv(rc * SinDeg(lonDeg), Unit) >>

\* THREE.MathUtils.lerp(x, y, t), t in 1/Unit
lerp(x, y, t) == x + RDiv((y - x) * t, Unit)

-----------------------------------------------------------------------------
(* Dates: new Date(timeMs) and its UTC fields *)

\* new Date(state.simulation.timeMs) as [day, ms]: days since 1970-01-01 and
\* the millisecond of the day.
DateOf(start, offset) ==
    LET total == start.ms + offset
    IN  [day |-> start.day + total \div MsPerDay, ms |-> total % MsPerDay]

\* The civil date [y, m, d] of a day number (proleptic Gregorian calendar),
\* what getUTCFullYear, getUTCMonth (m - 1) and getUTCDate return.
CivilOfDay(day) ==
    LET z   == day + 719468
        era == z \div 146097
        doe == z - era * 146097
        yoe == (doe - doe \div 1460 + doe \div 36524 - doe \div 146096) \div 365
        doy == doe - (365 * yoe + yoe \div 4 - yoe \div 100)
        mp  == (5 * doy + 2) \div 153
        d   == doy - (153 * mp + 2) \div 5 + 1
        m   == IF mp < 10 THEN mp + 3 ELSE mp - 9
    IN  [y |-> yoe + era * 400 + (IF m <= 2 THEN 1 ELSE 0), m |-> m, d |-> d]

\* The largest time value of a Date, 8.64 * 10^15 ms, in days.
MaxDateDay == 10 ^ 8

\* NaN: what Date.UTC returns outside the range of time values, and what
\* every operation on it returns.  It is kept as an integer apart from every
\* number of the model; the operators that can meet it test for it before
\* they calculate.
NaN == 1 - 2 ^ 30 - 2 ^ 30

\* TimeClip(time) for a time in whole days: NaN when it is more than
\* 8.64 * 10^15 ms from the epoch.
TimeClip(day) ==
    CHOOSE clipped \in { IF d < -MaxDateDay \/ d > MaxDateDay THEN NaN ELSE d :
                           d \in {day} } : TRUE

\* a - b of two numbers, NaN when one of them is.
Minus(a, b) ==
    CHOOSE difference \in { IF x = NaN \/ y = NaN THEN NaN ELSE x - y :
                              x \in {a}, y \in {b} } : TRUE

\* Math.max(a, b), NaN when one of them is.
MathMax(a, b) ==
    CHOOSE largest \in { IF x = NaN \/ y = NaN THEN NaN ELSE Max(x, y) :
                           x \in {a}, y \in {b} } : TRUE

\* Date.UTC(year, month, date) / 86400000 with month 0-based.  Like Date.UTC,
\* a date of 0 is the last day of the month before, a year from 0 to 99
\* stands for 1900 + year, and the result is NaN when it is more than
\* 8.64 * 10^15 ms from the epoch.
DateUTCDay(year, month, date) ==
    LET full == IF year >= 0 /\ year <= 99 THEN 1900 + year ELSE year
        m    == month + 1
        y    == IF m <= 2 THEN full - 1 ELSE full
        era  == y \div 400
        yoe  == y - era * 400
        doy  == (153 * (IF m > 2 THEN m - 3 ELSE m + 9) + 2) \div 5 + date - 1
        doe  == yoe * 365 + yoe \div 4 - yoe \div 100 + doy
    IN  TimeClip(era * 146097 + doe - 719468)

\* getDayOfYearUTC counting from 1 January instead of the day before it.
getDayOfYearUTCFromJan1(date) ==
    LET c     == CivilOfDay(date.day)
        start == DateUTCDay(c.y, 0, 1)
        now   == DateUTCDay(c.y, c.m - 1, c.d)
    IN  MathMax(1, Minus(now, start))

\* getDayOfYearUTC(date); start and now are kept in days, the division by
\* 86400000 of the source being exact.  Math.max(1, NaN) is NaN.
getDayOfYearUTC(date) ==
    LET c     == CivilOfDay(date.day)
        start == DateUTCDay(c.y, 0, 0)
        now   == DateUTCDay(c.y, c.m - 1, c.d)
    IN  MathMax(1, Minus(now, start))

-----------------------------------------------------------------------------
(* Solar ephemeris *)

\* The object computeSolarContext returns.  When dayOfYear is NaN so is gamma,
\* and with it every field but dayProgress.
SolarContext(dayOfYear, dayProgress, subsolarLat, subsolarLon) ==
    IF dayOfYear = NaN
    THEN [dayOfYear    |-> NaN,
          dayProgress  |-> dayProgress,
          subsolarLat  |-> NaN,
          subsolarLon  |-> NaN,
          sunDirection |-> <<NaN, NaN, NaN>>]
    ELSE [dayOfYear    |-> dayOfYear,
          dayProgress  |-> dayProgress,
          subsolarLat  |-> subsolarLat,
          subsolarLon  |-> subsolarLon,
          sunDirection |-> latLonToVector(subsolarLat, subsolarLon, Unit)]

\* computeSolarContext with the sign of the constant term of the declination
\* series reversed.
computeSolarContextOffset(date) ==
    LET dayOfYear == getDayOfYearUTC(date)
        \* utcHours * 15 degrees
        hourAngle == MulDiv(date.ms, 8192, 1875)
        \* (dayOfYear - 1 + (utcHours - 12) / 24) days, in seconds
        yearSec   == (dayOfYear - 1) * 86400 + RDiv(date.ms - 43200000, 1000)
        \* gamma in 2^-20 degree: 360 / 365 degrees per day
        gamma     == MulDiv(yearSec, 65536, 5475)
        \* declinationRad * 10^6
        declinationRad ==
            - 6918
            - MulDiv(399912, CosDeg(gamma), Unit)
            + MulDiv(70257, SinDeg(gamma), Unit)
            - MulDiv(6758, CosDeg(2 * gamma), Unit)
            + MulDiv(907, SinDeg(2 * gamma), Unit)
            - MulDiv(2697, CosDeg(3 * gamma), Unit)
            + MulDiv(1480, SinDeg(3 * gamma), Unit)
        \* the bracket of equationOfTimeMin, * 10^6
        eqSeries  ==
              75
            + MulDiv(1868, CosDeg(gamma), Unit)
            - MulDiv(32077, SinDeg(gamma), Unit)
            - MulDiv(14615, CosDeg(2 * gamma), Unit)
            - MulDiv(40849, SinDeg(2 * gamma), Unit)
        \* equationOfTimeMin * 0.25 degrees: 229.18 * 0.25 * 2^20 / 10^6
        eqDeg     == MulDiv(eqSeries, 60078, 1000)
        \* declinationRad * RAD2DEG: (180 / pi) * 2^20 / 10^6
        subsolarLat == MulDiv(declinationRad, 60079, 1000)
        subsolarLon == normalizeLongitude(180 * DegUnit - (hourAngle + eqDeg))
    IN  SolarContext(dayOfYear, hourAngle, subsolarLat, subsolarLon)

\* computeSolarContext(date).  dayProgress is kept as the angle
\* dayProgress * 360 degrees (2^-20 degree); subsolarLat and subsolarLon are
\* in 2^-20 degree; sunDirection in 1/Unit.
computeSolarContext(date) ==
    LET dayOfYear == getDayOfYearUTC(date)
        \* utcHours * 15 degrees
        hourAngle == MulDiv(date.ms, 8192, 1875)
        \* (dayOfYear - 1 + (utcHours - 12) / 24) days, in seconds
        yearSec   == (dayOfYear - 1) * 86400 + RDiv(date.ms - 43200000, 1000)
        \* gamma in 2^-20 degree: 360 / 365 degrees per day
        gamma     == MulDiv(yearSec, 65536, 5475)
        \* declinationRad * 10^6
        declinationRad ==
              6918
            - MulDiv(399912, CosDeg(gamma), Unit)
            + MulDiv(70257, SinDeg(gamma), Unit)
            - MulDiv(6758, CosDeg(2 * gamma), Unit)
            + MulDiv(907, SinDeg(2 * gamma), Unit)
            - MulDiv(2697, CosDeg(3 * gamma), Unit)
            + MulDiv(1480, SinDeg(3 * gamma), Unit)
        \* the bracket of equationOfTimeMin, * 10^6
        eqSeries  ==
              75
            + MulDiv(1868, CosDeg(gamma), Unit)
            - MulDiv(32077, SinDeg(gamma), Unit)
            - MulDiv(14615, CosDeg(2 * gamma), Unit)
            - MulDiv(40849, SinDeg(2 * gamma), Unit)
        \* equationOfTimeMin * 0.25 degrees: 229.18 * 0.25 * 2^20 / 10^6
        eqDeg     == MulDiv(eqSeries, 60078, 1000)
        \* declinationRad * RAD2DEG: (180 / pi) * 2^20 / 10^6
        subsolarLat == MulDiv(declinationRad, 60079, 1000)
        subsolarLon == normalizeLongitude(180 * DegUnit - (hourAngle + eqDeg))
    IN  SolarContext(dayOfYear, hourAngle, subsolarLat, subsolarLon)

\* new Date(time) for a time value [kind, day, ms], kind "finite" or
\* "infinite": an Invalid Date (valid FALSE) unless the value is finite and
\* within 8.64 * 10^15 ms of the epoch.
NewDate(time) ==
    IF /\ time.kind = "finite"
       /\ time.day >= -MaxDateDay
       /\ (time.day < MaxDateDay \/ (time.day = MaxDateDay /\ time.ms = 0))
    THEN [valid |-> TRUE, day |-> time.day, ms |-> time.ms]
    ELSE [valid |-> FALSE, day |-> 0, ms |-> 0]

\* computeSolarContext(new Date(time)): every UTC getter of an Invalid Date
\* returns NaN, which makes every field of the context NaN.  isNaN tells
\* whether some field of the context is NaN.
SolarContextOfTime(time) ==
    LET date == NewDate(time)
    IN  IF date.valid
        THEN CHOOSE out \in { [isNaN |-> context.dayOfYear = NaN, context |-> context] :
                                context \in {computeSolarContext(date)} } : TRUE
        ELSE [isNaN |-> TRUE,
              context |-> [dayOfYear |-> NaN, dayProgress |-> NaN,
                           subsolarLat |-> NaN, subsolarLon |-> NaN,
                           sunDirection |-> <<NaN, NaN, NaN>>]]

-----------------------------------------------------------------------------
(* Flow field samplers: u and v in 1/Unit; seed in 1/1024 *)

\* c/100 * x
Hundredths(c, x) == RDiv(c * x, 100)

\* Math.sign(shiftedLat) of sampleWindField, shiftedLat being
\* lat - subsolarLat * 0.42: the sign of 100 * lat - 42 * subsolarLat, taken
\* before anything is rounded to 2^-20 degree.  It is 0 only where
\* 100 * lat = 42 * subsolarLat; there the product of the code rounds to lat
\* (0.42 as a double is short of 0.42 by less than half an ulp of the
\* product) and its difference is 0 as well.
ShiftSign(lat, subsolarLat) ==
    Sign(100 * clamp(lat - 42 * (subsolarLat \div 100), -1, 42) - 42 * (subsolarLat % 100))

\* The body of sampleWindField, side being Math.sign(shiftedLat).
WindField(lat, lon, solarContext, seed, side) ==
    LET seasonalShift == MulDiv(solarContext.subsolarLat, 42, 100)
        shiftedLat    == lat - seasonalShift
        absShifted    == Abs(shiftedLat)
        dp            == solarContext.dayProgress
        jetNorth      == gaussian(lat, 34 * DegUnit + seasonalShift \div 2, 7)
        jetSouth      == gaussian(lat, -34 * DegUnit + seasonalShift \div 2, 7)
        \* lon * 3.0 + dayProgress * 720 + seed * 60
        a1            == lon * 3 + 2 * dp + seed * 60 * 1024
        \* lon * 2.2 + dayProgress * 540 + seed * 120
        a2            == lon * 2 + lon \div 5 + dp + dp \div 2 + seed * 120 * 1024
        \* lon * 1.8 - dayProgress * 480 + seed * 80
        a3            == lon * 2 - lon \div 5 - (dp + dp \div 3) + seed * 80 * 1024
        u == Hundredths(-85, gaussian(absShifted, 15 * DegUnit, 14))
           + Hundredths(95, gaussian(absShifted, 44 * DegUnit, 13))
           + Hundredths(-36, gaussian(absShifted, 72 * DegUnit, 10))
           + Hundredths(74, RDiv((jetNorth + jetSouth)
                                   * (Unit + Hundredths(22, SinDeg(a1))), Unit))
           + Hundredths(11, RDiv(SinDeg(a2) * CosDeg(lat + (2 * lat) \div 5), Unit))
        v == -side * Hundredths(26, gaussian(absShifted, 9 * DegUnit, 24))
           + Hundredths(9, RDiv(CosDeg(a3) * SinDeg(lat - seasonalShift), Unit))
    IN  [u |-> u, v |-> v]

\* sampleWindField(lat, lon, solarContext, seed)
sampleWindField(lat, lon, solarContext, seed) ==
    WindField(lat, lon, solarContext, seed, ShiftSign(lat, solarContext.subsolarLat))

\* sampleCurrentField(lat, lon, solarContext, seed)
sampleCurrentField(lat, lon, solarContext, seed) ==
    LET dp       == solarContext.dayProgress
        gyreBand == gaussian(Abs(lat), 27 * DegUnit, 18)
        \* lon * 2 + dayProgress * 120 + seed * 90
        a1       == lon * 2 + dp \div 3 + seed * 90 * 1024
        \* lon * 2.4 - dayProgress * 90 + seed * 100
        a2       == lon * 2 + (2 * lon) \div 5 - dp \div 4 + seed * 100 * 1024
        pg(c, w, lc, lw) ==
            RDiv(periodicLonGaussian(lon, c * DegUnit, w) * gaussian(lat, lc * DegUnit, lw),
                 Unit)
        u == Hundredths(-48, gaussian(lat, 0, 12))
           + Hundredths(22, gaussian(lat, 7 * DegUnit, 6))
           + Hundredths(33, gaussian(Abs(lat), 40 * DegUnit, 11))
           + Hundredths(52, gaussian(lat, -57 * DegUnit, 6))
           + Hundredths(10, RDiv(CosDeg(a2) * gyreBand, Unit))
           + Hundredths(58, pg(-70, 15, 36, 11))
           + Hundredths(52, pg(145, 14, 31, 10))
           + Hundredths(35, pg(20, 18, -37, 11))
        v == Hundredths(18, RDiv(SinDeg(a1) * gyreBand, Unit))
               * (IF lat >= 0 THEN -1 ELSE 1)
           + Hundredths(22, pg(-74, 12, 32, 12))
           + Hundredths(18, pg(141, 12, 28, 11))
           + Hundredths(-16, pg(18, 12, -34, 10))
    IN  [u |-> u, v |-> v]

-----------------------------------------------------------------------------
(* Flow layers *)

NoLayer == [id |-> "null"]

NoMaterial == [id |-> "null"]

NoMesh == [id |-> "null"]

\* No context object.
NoContext == [id |-> "null"]

\* The sunDirection field of a context object: a reference to the vector
\* scratch.sunDirection.
ScratchSunDirection == "scratch.sunDirection"

\* STATIC_SUN_DIRECTION: (0.68, 0.28, 0.73) normalized, in 1/Unit
STATIC_SUN_DIRECTION == <<6562, 2702, 7045>>

\* The configurations passed to createFlowLayer by ensureSystemLayers:
\* radius and speedRange in 1/Unit, speedToDegrees in tenths, lineLength in
\* hundredths, colours as the linear-sRGB channels THREE.Color keeps.
WindConfig ==
    [id |-> "wind", radius |-> 10320, speedToDegrees |-> 78, lineLength |-> 130,
     speedRange |-> 22500, colorA |-> <<802, 5776, 10000>>,
     colorB |-> <<6867, 9647, 10000>>, sampler |-> "sampleWindField"]

CurrentConfig ==
    [id |-> "current", radius |-> 10130, speedToDegrees |-> 56, lineLength |-> 105,
     speedRange |-> 17000, colorA |-> <<284, 3916, 10000>>,
     colorB |-> <<908, 10000, 7991>>, sampler |-> "sampleCurrentField"]

\* createFlowLayer without the factor 0.95 on the latitudes.
createFlowLayerNoMargin(config, draws) ==
    [id             |-> config.id,
     count          |-> Len(draws),
     radius         |-> config.radius,
     speedToDegrees |-> config.speedToDegrees,
     lineLength     |-> config.lineLength,
     speedRange     |-> config.speedRange,
     colorA         |-> config.colorA,
     colorB         |-> config.colorB,
     sampler        |-> config.sampler,
     latitudes      |-> [i \in 1..Len(draws) |-> Fround(draws[i].asin)],
     longitudes     |-> [i \in 1..Len(draws) |-> Fround(draws[i].lon)],
     seeds          |-> [i \in 1..Len(draws) |-> draws[i].seed],
     positionArray  |-> [k \in 1..(6 * Len(draws)) |-> 0],
     colorArray     |-> [k \in 1..(6 * Len(draws)) |-> 0],
     visible        |-> TRUE,
     meanSpeed      |-> 0,
     meanZonal      |-> 0]

\* createFlowLayer with buffers of one point, not one segment, per particle.
createFlowLayerPoints(config, draws) ==
    [createFlowLayerNoMargin(config, draws) EXCEPT
        !.latitudes     = [i \in 1..Len(draws) |-> Fround(MulDiv(draws[i].asin, 95, 100))],
        !.positionArray = [k \in 1..(3 * Len(draws)) |-> 0],
        !.colorArray    = [k \in 1..(3 * Len(draws)) |-> 0]]

\* createFlowLayer(config).  draws[i] holds the random numbers of particle i:
\* asin = Math.asin(randFloatSpread(2)) * RAD2DEG in [-90, 90] degrees,
\* lon = randFloatSpread(360) in (-180, 180] degrees, seed = Math.random().
\* latitudes, longitudes and seeds are Float32Arrays.
createFlowLayer(config, draws) ==
    [id             |-> config.id,
     count          |-> Len(draws),
     radius         |-> config.radius,
     speedToDegrees |-> config.speedToDegrees,
     lineLength     |-> config.lineLength,
     speedRange     |-> config.speedRange,
     colorA         |-> config.colorA,
     colorB         |-> config.colorB,
     sampler        |-> config.sampler,
     latitudes      |-> [i \in 1..Len(draws) |-> Fround(MulDiv(draws[i].asin, 95, 100))],
     longitudes     |-> [i \in 1..Len(draws) |-> Fround(draws[i].lon)],
     seeds          |-> [i \in 1..Len(draws) |-> draws[i].seed],
     positionArray  |-> [k \in 1..(6 * Len(draws)) |-> 0],
     colorArray     |-> [k \in 1..(6 * Len(draws)) |-> 0],
     visible        |-> TRUE,
     meanSpeed      |-> 0,
     meanZonal      |-> 0]

\* An angle step: speed (1/Unit) times degrees per unit speed (1/Unit of a
\* degree), in 2^-20 degree.
AngleStep(speed, degPerSpeed) == MulDiv(MulDiv(degPerSpeed, 65536, 625), speed, Unit)

\* The most a speed the samplers of this module return differs from the
\* double the samplers of the code return, in 1/Unit.
SampleSlack == 10

\* The most the subsolar latitude computeSolarContext of this module returns
\* differs from the double the code computes, in 2^-20 degree.
SolarSlack == 8192

\* The values Math.sign(shiftedLat) can have in the code when this module
\* has the subsolar latitude at subsolarLat: the latitude where the sign
\* changes, subsolarLat * 0.42, is within SolarSlack * 0.42 of the one of
\* the code, and a particle that close to it can be on either side of it, or
\* on it, in the code.
ShiftSigns(lat, subsolarLat) ==
    { side \in {-1, 0, 1} :
        /\ ShiftSign(lat, subsolarLat + SolarSlack) <= side
        /\ side <= ShiftSign(lat, subsolarLat - SolarSlack) }

\* layer.sampler(lat, lon, solarContext, seed) in updateFlowLayer: the set of
\* what the call can return, one field for each sign of ShiftSigns for the
\* wind, one field for the currents.
Samples(layer, lat, lon, solarContext, seed) ==
    IF layer.sampler = "sampleWindField"
    THEN { WindField(lat, lon, solarContext, seed, side) :
             side \in ShiftSigns(lat, solarContext.subsolarLat) }
    ELSE { sampleCurrentField(lat, lon, solarContext, seed) }

\* The outcomes the two comparisons of the pole reflection can have in the
\* code, `lat > 84' ("north"), `lat < -84' ("south") or neither
\* ("between"), when this module has the latitude after `lat += v * drift'
\* at lat.  The speed is within SampleSlack of the code's and the step is
\* rounded to 2^-20 degree, so the two latitudes are within slack of each
\* other and a latitude that close to a pole line can be on either side of
\* it in the code.  With a drift of 0 the step is 0 and the latitude is the
\* stored one in both.
PoleSides(lat, drift) ==
    LET slack == IF drift = 0 THEN 0 ELSE AngleStep(SampleSlack, drift) + 1
    IN  { side \in {"north", "south", "between"} :
            CASE side = "north" -> lat + slack > 84 * DegUnit
              [] side = "south" -> lat - slack < -84 * DegUnit
              [] OTHER -> lat - slack <= 84 * DegUnit /\ lat + slack >= -84 * DegUnit }

\* The pole reflection that leaves the longitude as it is.
ReflectAtPoleNoShift(lat, lon, side) ==
    CASE side = "north" ->
           [lat |-> 84 * DegUnit - (Max(lat, 84 * DegUnit) - 84 * DegUnit), lon |-> lon]
      [] side = "south" ->
           [lat |-> -84 * DegUnit - (Min(lat, -84 * DegUnit) + 84 * DegUnit), lon |-> lon]
      [] OTHER -> [lat |-> clamp(lat, -84 * DegUnit, 84 * DegUnit), lon |-> lon]

\* The pole reflection of updateFlowLayer: [lat, lon] after it, side being
\* the outcome of its comparisons.  The latitude is taken on the side the
\* code has it.
ReflectAtPole(lat, lon, side) ==
    CASE side = "north" ->
           [lat |-> 84 * DegUnit - (Max(lat, 84 * DegUnit) - 84 * DegUnit),
            lon |-> lon + 180 * DegUnit]
      [] side = "south" ->
           [lat |-> -84 * DegUnit - (Min(lat, -84 * DegUnit) + 84 * DegUnit),
            lon |-> lon + 180 * DegUnit]
      [] OTHER -> [lat |-> clamp(lat, -84 * DegUnit, 84 * DegUnit), lon |-> lon]

\* The divisor with no floor under it.
cosLatUnclamped(lat) == CosDeg(lat)

\* The drift of a frame multiplied by the time scale, as the clock advance
\* is.
layerDriftScaled(layer, delta) == layer.speedToDegrees * delta * timeScale

\* layer.speedToDegrees * delta, in 1/Unit of a degree; delta in ms.
layerDrift(layer, delta) == layer.speedToDegrees * delta

\* Math.max(Math.cos(lat * DEG2RAD), 0.2), in 1/Unit
cosLat(lat) == Max(CosDeg(lat), 2000)

\* The body of the loop of updateFlowLayer for particle i once the field is
\* sampled; delta in ms.  rawLat and rawLon are lat and lon before the pole
\* reflection, side the outcome of its comparisons, cosLat and endCosLat
\* the two divisors.
MoveParticle(layer, i, delta, sampled, side) ==
    LET lat0    == layer.latitudes[i]
        lon0    == layer.longitudes[i]
        u       == sampled.u
        v       == sampled.v
        speed   == Hypot(u, v)
        rawLat  == lat0 + AngleStep(v, layerDrift(layer, delta))
        rawLon  == lon0 + MulDiv(AngleStep(u, layerDrift(layer, delta)), Unit, cosLat(lat0))
        moved   == ReflectAtPole(rawLat, rawLon, side)
        lat     == moved.lat
        lon     == normalizeLongitude(moved.lon)
        \* layer.lineLength * (0.45 + speed * 0.7), in 1/Unit
        lineStep == Hundredths(layer.lineLength, 4500 + RDiv(speed * 7, 10))
        endLat  == clamp(lat + AngleStep(v, lineStep), -85 * DegUnit, 85 * DegUnit)
        endLon  == normalizeLongitude(
                       lon + MulDiv(AngleStep(u, lineStep), Unit, cosLat(endLat)))
        intensity == clamp(RDiv(speed * Unit, layer.speedRange), 0, Unit)
        rgb     == [c \in 1..3 |-> lerp(layer.colorA[c], layer.colorB[c], intensity)]
    IN  [lat      |-> Fround(lat),
         lon      |-> Fround(lon),
         u        |-> u,
         speed    |-> speed,
         rawLat   |-> rawLat,
         rawLon   |-> rawLon,
         side     |-> side,
         cosLat   |-> cosLat(lat0),
         endLat   |-> endLat,
         endCosLat |-> cosLat(endLat),
         position |-> latLonToVector(lat, lon, layer.radius)
                      \o latLonToVector(endLat, endLon, layer.radius),
         color    |-> rgb \o rgb]

\* One iteration of the loop of updateFlowLayer: the field is sampled at the
\* stored position of particle i and the particle is moved.  The set of
\* what the iteration can compute: one result, or more when the particle is
\* as close to the latitude where the wind turns as ShiftSigns says or comes
\* as close to a pole line as PoleSides says.
AdvectParticle(layer, i, delta, solarContext) ==
    UNION { { MoveParticle(layer, i, delta, sampled, side) :
                side \in PoleSides(layer.latitudes[i]
                                     + AngleStep(sampled.v, layerDrift(layer, delta)),
                                   layerDrift(layer, delta)) } :
            sampled \in Samples(layer, layer.latitudes[i], layer.longitudes[i],
                                solarContext, layer.seeds[i]) }

\* The loop of updateFlowLayer: the sets of what it can compute for the
\* particles, p[i] for particle i.
AdvectAll(layer, delta, solarContext) ==
    UNION { { p \in [1..layer.count -> UNION { moves[i] : i \in 1..layer.count }] :
                \A i \in 1..layer.count : p[i] \in moves[i] } :
            moves \in { [i \in 1..layer.count |->
                           AdvectParticle(layer, i, delta, solarContext)] } }

RECURSIVE SumTo(_, _)
SumTo(f, n) == IF n = 0 THEN 0 ELSE f[n] + SumTo(f, n - 1)

\* The stores that end updateFlowLayer, p[i] being what the loop computed for
\* particle i.
WriteBack(layer, p) ==
    [layer EXCEPT
       !.latitudes     = [i \in 1..layer.count |-> p[i].lat],
       !.longitudes    = [i \in 1..layer.count |-> p[i].lon],
       !.positionArray = [k \in 1..(6 * layer.count) |->
                            p[((k - 1) \div 6) + 1].position[((k - 1) % 6) + 1]],
       !.colorArray    = [k \in 1..(6 * layer.count) |->
                            p[((k - 1) \div 6) + 1].color[((k - 1) % 6) + 1]],
       !.meanSpeed     = SumTo([i \in 1..layer.count |-> p[i].speed], layer.count)
                           \div layer.count,
       !.meanZonal     = SumTo([i \in 1..layer.count |-> p[i].u], layer.count)
                           \div layer.count]

\* updateFlowLayer without the early return of the disabled branch: the
\* particles are advected whether or not the layer is visible.
updateFlowLayerNoReturn(layer, delta, solarContext) ==
    { WriteBack(layer, p) : p \in AdvectAll(layer, delta, solarContext) }

\* updateFlowLayer whose disabled branch returns without resetting the
\* aggregates.
updateFlowLayerRetain(layer, delta, solarContext) ==
    IF ~layer.visible
    THEN {layer}
    ELSE { WriteBack(layer, p) : p \in AdvectAll(layer, delta, solarContext) }

\* updateFlowLayer(layer, delta, solarContext): the layers the call can
\* leave, one for each result of the loop.
updateFlowLayer(layer, delta, solarContext) ==
    IF ~layer.visible
    THEN { [layer EXCEPT !.meanSpeed = 0, !.meanZonal = 0] }
    ELSE { WriteBack(layer, p) : p \in AdvectAll(layer, delta, solarContext) }

\* The two statements made only when the solar toggle is on.
SyncAndUpdateWhenSolar(layer, enabled, delta, solarContext) ==
    IF layer = NoLayer \/ ~system.solarEnabled THEN {layer}
    ELSE updateFlowLayer([layer EXCEPT !.visible = enabled], delta, solarContext)

\* The two statements of animate for one layer: the visibility flag follows
\* the toggle, then the layer is updated.  A null layer is skipped.  The
\* layers the statements can leave.
SyncAndUpdate(layer, enabled, delta, solarContext) ==
    IF layer = NoLayer THEN {layer}
    ELSE updateFlowLayer([layer EXCEPT !.visible = enabled], delta, solarContext)

\* clamp(layer.meanSpeed / layer.speedRange, 0, 1), 0 for a null layer
FlowFactor(layer) ==
    IF layer = NoLayer THEN 0
    ELSE clamp(RDiv(layer.meanSpeed * Unit, layer.speedRange), 0, Unit)

\* applyCoupling with the weights of the two factors exchanged in the
\* shininess.
applyCouplingSwapped(material, sys, wind, current) ==
    IF material = NoMaterial THEN material
    ELSE IF ~sys.couplingEnabled
    THEN [material EXCEPT !.shininess = 22 * Unit, !.specular = <<307, 802, 1590>>]
    ELSE LET windFactor    == FlowFactor(wind)
             currentFactor == FlowFactor(current)
         IN  [material EXCEPT
                !.shininess = 20 * Unit + currentFactor * 6 + windFactor * 16,
                !.specular  = << 1900 + Hundredths(16, currentFactor),
                                 3000 + Hundredths(18, currentFactor),
                                 4200 + Hundredths(12, windFactor) >>]

\* applyCoupling(): earthMaterial after the call; shininess in 1/Unit.
applyCoupling(material, sys, wind, current) ==
    IF material = NoMaterial THEN material
    ELSE IF ~sys.couplingEnabled
    THEN [material EXCEPT !.shininess = 22 * Unit, !.specular = <<307, 802, 1590>>]
    ELSE LET windFactor    == FlowFactor(wind)
             currentFactor == FlowFactor(current)
         IN  [material EXCEPT
                !.shininess = 20 * Unit + currentFactor * 16 + windFactor * 6,
                !.specular  = << 1900 + Hundredths(16, currentFactor),
                                 3000 + Hundredths(18, currentFactor),
                                 4200 + Hundredths(12, windFactor) >>]

\* Math.log10(n) for an integer n >= 1, in 1/Unit: the integer part is the
\* number of digits less one, the fraction is built bit by bit by squaring
\* the mantissa x (in 1/Unit, 1 <= x < 10).
RECURSIVE Log10Bits(_, _)
Log10Bits(x, i) ==
    IF i > 14 THEN 0
    ELSE LET sq == MulDiv(x, x, Unit)
         IN  IF sq >= 10 * Unit
             THEN 2 ^ (14 - i) + Log10Bits(RDiv(sq, 10), i + 1)
             ELSE Log10Bits(sq, i + 1)

RECURSIVE Digits10(_)
Digits10(n) == IF n < 10 THEN 0 ELSE 1 + Digits10(n \div 10)

Log10(n) ==
    LET k == Digits10(n)
    IN  k * Unit + RDiv(Log10Bits(MulDiv(n, Unit, 10 ^ k), 1) * Unit, 2 ^ 14)

\* getCloudDriftSpeed without the clamp of the wind influence.
getCloudDriftSpeedUnclamped(sys, wind, scale) ==
    IF ~sys.couplingEnabled THEN 62000
    ELSE LET windInfluence == IF wind = NoLayer THEN 0
                              ELSE RDiv(wind.meanSpeed * Unit, wind.speedRange)
             timeBoost     == IF scale > 1 THEN RDiv(Log10(scale + 1) * 6, 10) ELSE 0
         IN  38000 + RDiv(windInfluence * 37, 10) + timeBoost

\* getCloudDriftSpeed without the branch of the disabled coupling.
getCloudDriftSpeedCoupled(sys, wind, scale) ==
    38000 + RDiv(FlowFactor(wind) * 37, 10)
          + (IF scale > 1 THEN RDiv(Log10(scale + 1) * 6, 10) ELSE 0)

\* getCloudDriftSpeed(), in 10^-6 rad/s.
getCloudDriftSpeed(sys, wind, scale) ==
    IF ~sys.couplingEnabled THEN 62000
    ELSE LET windInfluence == FlowFactor(wind)
             timeBoost     == IF scale > 1 THEN RDiv(Log10(scale + 1) * 6, 10) ELSE 0
         IN  38000 + RDiv(windInfluence * 37, 10) + timeBoost

-----------------------------------------------------------------------------
(* Readouts *)

\* formatSigned(value) of an angle in 2^-20 degree: the sign and
\* Math.abs(value).toFixed(1) in tenths.
formatSigned(value) ==
    [sign |-> IF value >= 0 THEN "+" ELSE "-", tenths |-> MulDiv(Abs(value), 10, DegUnit)]

\* formatUtc(date): the UTC calendar fields down to the second.
formatUtc(date) ==
    LET c == CivilOfDay(date.day)
        second == date.ms \div 1000
    IN  [y |-> c.y, m |-> c.m, d |-> c.d, h |-> second \div 3600,
         mm |-> (second % 3600) \div 60, s |-> second % 60]

\* The text of a flow readout: layer.meanSpeed.toFixed(2) in hundredths, or
\* OFF.
FlowText(enabled, layer) ==
    IF enabled /\ layer # NoLayer
    THEN [off |-> FALSE, hundredths |-> RDiv(layer.meanSpeed, 100)]
    ELSE [off |-> TRUE, hundredths |-> 0]

\* The readouts before the first refresh.
NoReadout ==
    [shown |-> FALSE,
     utc   |-> [y |-> 0, m |-> 0, d |-> 0, h |-> 0, mm |-> 0, s |-> 0],
     subsolarLat |-> formatSigned(0),
     subsolarLon |-> formatSigned(0),
     wind    |-> FlowText(FALSE, NoLayer),
     current |-> FlowText(FALSE, NoLayer)]

\* state.simulation.readoutTimer is a double that adds up the deltas of the
\* frames, in seconds, and is compared with 0.2.  The doubles it takes are
\* whole multiples of 2^-62 below 2^-1; such a double is kept as [hi, lo],
\* which stands for (hi * 2^30 + lo) * 2^-62.
Limb == 2 ^ 30

DoubleZero == [hi |-> 0, lo |-> 0]

DoubleLess(a, b) == a.hi < b.hi \/ (a.hi = b.hi /\ a.lo < b.lo)

\* The unit in the last place of the doubles hi * 2^30 + lo, in the unit hi
\* and lo are counted in: a double has 53 bits.
RECURSIVE UlpOf(_)
UlpOf(hi) == IF hi < 2 ^ 23 THEN 1 ELSE 2 * UlpOf(hi \div 2)

\* The double nearest to hi * 2^30 + lo + num / den (0 <= num < den), the
\* one with the even last bit when two are as near.
RoundDouble(hi, lo, num, den) ==
    CHOOSE double \in
      { IF \/ 2 * (rest * den + num) > ulp * den
           \/ 2 * (rest * den + num) = ulp * den /\ ((lo - rest) \div ulp) % 2 = 1
        THEN IF lo - rest + ulp = Limb THEN [hi |-> hi + 1, lo |-> 0]
             ELSE [hi |-> hi, lo |-> lo - rest + ulp]
        ELSE [hi |-> hi, lo |-> lo - rest] :
          ulp \in {UlpOf(hi)}, rest \in {lo % UlpOf(hi)} } : TRUE

\* a + b of two doubles.
DoubleAdd(a, b) ==
    RoundDouble(a.hi + b.hi + (a.lo + b.lo) \div Limb, (a.lo + b.lo) % Limb, 0, 1)

\* A remainder of the division by 125 carried to the next digit of base 2^15.
Carry(x) == (x % 125) * 2 ^ 15

\* The double ms / 1000 for a whole number of milliseconds below 500: the
\* quotient ms * 2^62 / 1000 = ms * 2^14 * 2^45 / 125 by long division in
\* base 2^15, rounded.
Seconds(ms) ==
    LET top == ms * 2 ^ 14
        x1  == Carry(top)
        x2  == Carry(x1)
        x3  == Carry(x2)
    IN  RoundDouble((top \div 125) * 2 ^ 15 + x1 \div 125,
                    (x2 \div 125) * 2 ^ 15 + x3 \div 125, x3 % 125, 125)

\* readoutTimer += delta leaves the timer below 0.2; delta in ms.
BelowFifth(timer, delta) == DoubleLess(DoubleAdd(timer, Seconds(delta)), Seconds(200))

\* The timer of the readouts refreshed only once it is past 0.2 s.
ReadoutTimerAfterLate(timer, delta) ==
    IF DoubleLess(Seconds(200), DoubleAdd(timer, Seconds(delta)))
    THEN DoubleZero ELSE DoubleAdd(timer, Seconds(delta))

\* updateReadouts: readoutTimer after the call, delta in ms.
ReadoutTimerAfter(timer, delta) ==
    IF BelowFifth(timer, delta) THEN DoubleAdd(timer, Seconds(delta)) ELSE DoubleZero

\* updateReadouts(delta, simDate, solarContext): <<readoutTimer, readout>>
\* after the call; delta in ms.
updateReadouts(timer, shown, delta, simDate, solarContext, sys, wind, current) ==
    IF BelowFifth(timer, delta) THEN <<ReadoutTimerAfter(timer, delta), shown>>
    ELSE <<ReadoutTimerAfter(timer, delta),
           [shown |-> TRUE,
            utc   |-> formatUtc(simDate),
            subsolarLat |-> formatSigned(solarContext.subsolarLat),
            subsolarLon |-> formatSigned(solarContext.subsolarLon),
            wind    |-> FlowText(sys.windEnabled, wind),
            current |-> FlowText(sys.currentEnabled, current)]>>

-----------------------------------------------------------------------------
(* normalizeLongitude in double arithmetic *)

\* A longitude as the double it is in the source: [neg, hi, lo] stands for
\* (hi * 2^30 + lo) * 2^-45 degree, taken negative when neg is TRUE.  The
\* doubles below 128 degrees that are whole multiples of 2^-45 degree, and
\* every double from 128 degrees on, are of this form: 256 degrees are 2^53 of
\* these units, so that the unit in the last place is the one UlpOf gives.
\* Zero is kept with neg FALSE; 0 and -0 behave alike in the sums and the
\* comparison made here.
Signed(neg, magnitude) ==
    CHOOSE double \in
      { [neg |-> neg /\ (m.hi # 0 \/ m.lo # 0), hi |-> m.hi, lo |-> m.lo] :
          m \in {magnitude} } : TRUE

\* The double of a whole number of degrees.
Degrees(n) == [neg |-> n < 0, hi |-> Abs(n) * 2 ^ 15, lo |-> 0]

\* The double of a whole number of units of 2^-45 degree, below 2^30.
Bits(n) == [neg |-> n < 0, hi |-> 0, lo |-> Abs(n)]

\* x + y as a real number: the magnitudes are added when the signs agree,
\* and the smaller is taken from the larger, which gives the sign, when they
\* do not; the limbs carry and borrow.
ExactSum(x, y) ==
    CHOOSE sum \in
      { IF a.neg = b.neg
        THEN Signed(a.neg, [hi |-> a.hi + b.hi + (a.lo + b.lo) \div Limb,
                            lo |-> (a.lo + b.lo) % Limb])
        ELSE IF a.lo >= b.lo
        THEN Signed(a.neg, [hi |-> a.hi - b.hi, lo |-> a.lo - b.lo])
        ELSE Signed(a.neg, [hi |-> a.hi - b.hi - 1, lo |-> a.lo + Limb - b.lo]) :
          a \in { IF DoubleLess(x, y) THEN y ELSE x },
          b \in { IF DoubleLess(x, y) THEN x ELSE y } } : TRUE

\* The double nearest to x, the one with the even last bit when two are as
\* near.
Rounded(x) ==
    CHOOSE double \in { Signed(a.neg, RoundDouble(a.hi, a.lo, 0, 1)) : a \in {x} } : TRUE

\* x % 360: the remainder has the sign of x and is exact.
Remainder360(x) ==
    CHOOSE remainder \in
      { Signed(a.neg, [hi |-> a.hi % (360 * 2 ^ 15), lo |-> a.lo]) : a \in {x} } : TRUE

\* ((lon + 180) % 360 + 360) % 360 - 180
ShiftedLongitude(lon) ==
    Rounded(ExactSum(
        Remainder360(Rounded(ExactSum(
            Remainder360(Rounded(ExactSum(lon, Degrees(180)))),
            Degrees(360)))),
        Degrees(-180)))

\* normalizeLongitude in doubles without the step that maps -180 to 180.
normalizeLongitudeDoubleNoFix(lon) == ShiftedLongitude(lon)

\* normalizeLongitude(lon) for the double lon, with the rounding of each of
\* its three additions.
normalizeLongitudeDouble(lon) ==
    CHOOSE result \in
      { IF output = Degrees(-180) THEN Degrees(180) ELSE output :
          output \in {ShiftedLongitude(lon)} } : TRUE

-----------------------------------------------------------------------------
(* Number(string) as used on the value of the time-speed select *)

\* Strings are given as the sequence of their characters.
DigitOf == [c \in {"0", "1", "2", "3", "4", "5", "6", "7", "8", "9"} |->
              CASE c = "0" -> 0 [] c = "1" -> 1 [] c = "2" -> 2 [] c = "3" -> 3
                [] c = "4" -> 4 [] c = "5" -> 5 [] c = "6" -> 6 [] c = "7" -> 7
                [] c = "8" -> 8 [] c = "9" -> 9]

\* The value of a digit of a hexadecimal, octal or binary literal.
HexDigitOf(c) ==
    IF c \in DOMAIN DigitOf THEN DigitOf[c]
    ELSE CASE c \in {"a", "A"} -> 10 [] c \in {"b", "B"} -> 11
           [] c \in {"c", "C"} -> 12 [] c \in {"d", "D"} -> 13
           [] c \in {"e", "E"} -> 14 [] c \in {"f", "F"} -> 15
           [] OTHER -> 16

IsDigits(str) == Len(str) > 0 /\ \A i \in 1..Len(str) : str[i] \in DOMAIN DigitOf

IsDigitsOfRadix(str, radix) ==
    Len(str) > 0 /\ \A i \in 1..Len(str) : HexDigitOf(str[i]) < radix

\* The value of a string of decimal digits read as an exponent, exact below
\* 2 * 10^9 and 2 * 10^9 from there on: the Number of a literal depends on
\* more of its exponent only when the literal has more than 10^9 digits,
\* which is more than a sequence holds.
RECURSIVE DigitsValue(_)
DigitsValue(str) ==
    IF Len(str) = 0 THEN 0
    ELSE CHOOSE value \in
           { IF front >= 2 * 10 ^ 8 THEN 2 * 10 ^ 9
             ELSE front * 10 + DigitOf[str[Len(str)]] :
               front \in {DigitsValue(SubSeq(str, 1, Len(str) - 1))} } : TRUE

InfinityLiteral == <<"I", "n", "f", "i", "n", "i", "t", "y">>

\* StrWhiteSpaceChar: WhiteSpace (tab, vertical tab, form feed, U+FEFF and
\* the space separators) and LineTerminator (line feed, carriage return,
\* U+2028, U+2029).  A character that a string of this module cannot hold
\* is given by its code point.
WhiteSpace ==
    {" ", "\t", "\n", "\r", "\f", "", " ", " ", "﻿",
     "U+000B", "U+00A0", "U+1680", "U+2000", "U+2001", "U+2002", "U+2003",
     "U+2004", "U+2005", "U+2006", "U+2007", "U+2008", "U+2009", "U+200A",
     "U+2028", "U+2029", "U+202F", "U+205F", "U+3000", "U+FEFF"}

\* str without the white space at its two ends.
RECURSIVE TrimString(_)
TrimString(str) ==
    IF Len(str) = 0 THEN str
    ELSE IF str[1] \in WhiteSpace THEN TrimString(Tail(str))
    ELSE IF str[Len(str)] \in WhiteSpace THEN TrimString(SubSeq(str, 1, Len(str) - 1))
    ELSE str

\* The position of the first character of str that is in chars, 0 if none.
IndexOf(str, chars) ==
    IF \E i \in 1..Len(str) : str[i] \in chars
    THEN CHOOSE i \in 1..Len(str) :
           /\ str[i] \in chars
           /\ \A j \in 1..(i - 1) : str[j] \notin chars
    ELSE 0

\* Natural numbers of any size are sequences of decimal digits, the most
\* significant first.  The digits of n * radix + carry for the digits of n.
RECURSIVE TimesPlus(_, _, _)
TimesPlus(digits, radix, carry) ==
    IF Len(digits) = 0
    THEN IF carry = 0 THEN <<>>
         ELSE TimesPlus(<<>>, radix, carry \div 10) \o <<carry % 10>>
    ELSE LET t == digits[Len(digits)] * radix + carry
         IN  TimesPlus(SubSeq(digits, 1, Len(digits) - 1), radix, t \div 10)
               \o <<t % 10>>

\* The decimal digits of the number a string of digits states in a radix.
RECURSIVE RadixDigits(_, _)
RadixDigits(str, radix) ==
    IF Len(str) = 0 THEN <<>>
    ELSE TimesPlus(RadixDigits(SubSeq(str, 1, Len(str) - 1), radix), radix,
                   HexDigitOf(str[Len(str)]))

RECURSIVE StripLeadingZeros(_)
StripLeadingZeros(digits) ==
    IF Len(digits) > 0 /\ digits[1] = 0 THEN StripLeadingZeros(Tail(digits))
    ELSE digits

\* <<digits, exp>> without the zeros at the end of digits, each of which
\* adds one to exp.
RECURSIVE StripTrailingZeros(_, _)
StripTrailingZeros(digits, exp) ==
    IF Len(digits) > 0 /\ digits[Len(digits)] = 0
    THEN StripTrailingZeros(SubSeq(digits, 1, Len(digits) - 1), exp + 1)
    ELSE <<digits, exp>>

\* 0.a1a2... < 0.b1b2... for two sequences of digits.
RECURSIVE FractionLess(_, _)
FractionLess(a, b) ==
    IF Len(b) = 0 THEN FALSE
    ELSE IF Len(a) = 0 THEN \E i \in 1..Len(b) : b[i] # 0
    ELSE IF a[1] # b[1] THEN a[1] < b[1]
    ELSE FractionLess(Tail(a), Tail(b))

\* The integer of a sequence of at most ten digits.
RECURSIVE SmallValue(_)
SmallValue(digits) ==
    IF Len(digits) = 0 THEN 0
    ELSE SmallValue(SubSeq(digits, 1, Len(digits) - 1)) * 10 + digits[Len(digits)]

\* The digits of 2^1024 - 2^970 = 0.1797... * 10^309, half way between the
\* largest double and 2^1024: from it on a decimal rounds to Infinity.
OverflowDigits ==
    <<1, 7, 9, 7, 6, 9, 3, 1, 3, 4, 8, 6, 2, 3, 1, 5, 8, 0, 7, 9, 3, 7, 2, 8,
      9, 7, 1, 4, 0, 5, 3, 0, 3, 4, 1, 5, 0, 7, 9, 9, 3, 4, 1, 3, 2, 7, 1, 0,
      0, 3, 7, 8, 2, 6, 9, 3, 6, 1, 7, 3, 7, 7, 8, 9, 8, 0, 4, 4, 4, 9, 6, 8,
      2, 9, 2, 7, 6, 4, 7, 5, 0, 9, 4, 6, 6, 4, 9, 0, 1, 7, 9, 7, 7, 5, 8, 7,
      2, 0, 7, 0, 9, 6, 3, 3, 0, 2, 8, 6, 4, 1, 6, 6, 9, 2, 8, 8, 7, 9, 1, 0,
      9, 4, 6, 5, 5, 5, 5, 4, 7, 8, 5, 1, 9, 4, 0, 4, 0, 2, 6, 3, 0, 6, 5, 7,
      4, 8, 8, 6, 7, 1, 5, 0, 5, 8, 2, 0, 6, 8, 1, 9, 0, 8, 9, 0, 2, 0, 0, 0,
      7, 0, 8, 3, 8, 3, 6, 7, 6, 2, 7, 3, 8, 5, 4, 8, 4, 5, 8, 1, 7, 7, 1, 1,
      5, 3, 1, 7, 6, 4, 4, 7, 5, 7, 3, 0, 2, 7, 0, 0, 6, 9, 8, 5, 5, 5, 7, 1,
      3, 6, 6, 9, 5, 9, 6, 2, 2, 8, 4, 2, 9, 1, 4, 8, 1, 9, 8, 6, 0, 8, 3, 4,
      9, 3, 6, 4, 7, 5, 2, 9, 2, 7, 1, 9, 0, 7, 4, 1, 6, 8, 4, 4, 4, 3, 6, 5,
      5, 1, 0, 7, 0, 4, 3, 4, 2, 7, 1, 1, 5, 5, 9, 6, 9, 9, 5, 0, 8, 0, 9, 3,
      0, 4, 2, 8, 8, 0, 1, 7, 7, 9, 0, 4, 1, 7, 4, 4, 9, 7, 7, 9, 2>>

\* The digits of 2^-1075 = 5^1075 * 10^-1075 = 0.2470... * 10^-323, half way
\* between 0 and the smallest double: up to it a decimal rounds to 0.
UnderflowDigits ==
    <<2, 4, 7, 0, 3, 2, 8, 2, 2, 9, 2, 0, 6, 2, 3, 2, 7, 2, 0, 8, 8, 2, 8, 4,
      3, 9, 6, 4, 3, 4, 1, 1, 0, 6, 8, 6, 1, 8, 2, 5, 2, 9, 9, 0, 1, 3, 0, 7,
      1, 6, 2, 3, 8, 2, 2, 1, 2, 7, 9, 2, 8, 4, 1, 2, 5, 0, 3, 3, 7, 7, 5, 3,
      6, 3, 5, 1, 0, 4, 3, 7, 5, 9, 3, 2, 6, 4, 9, 9, 1, 8, 1, 8, 0, 8, 1, 7,
      9, 9, 6, 1, 8, 9, 8, 9, 8, 2, 8, 2, 3, 4, 7, 7, 2, 2, 8, 5, 8, 8, 6, 5,
      4, 6, 3, 3, 2, 8, 3, 5, 5, 1, 7, 7, 9, 6, 9, 8, 9, 8, 1, 9, 9, 3, 8, 7,
      3, 9, 8, 0, 0, 5, 3, 9, 0, 9, 3, 9, 0, 6, 3, 1, 5, 0, 3, 5, 6, 5, 9, 5,
      1, 5, 5, 7, 0, 2, 2, 6, 3, 9, 2, 2, 9, 0, 8, 5, 8, 3, 9, 2, 4, 4, 9, 1,
      0, 5, 1, 8, 4, 4, 3, 5, 9, 3, 1, 8, 0, 2, 8, 4, 9, 9, 3, 6, 5, 3, 6, 1,
      5, 2, 5, 0, 0, 3, 1, 9, 3, 7, 0, 4, 5, 7, 6, 7, 8, 2, 4, 9, 2, 1, 9, 3,
      6, 5, 6, 2, 3, 6, 6, 9, 8, 6, 3, 6, 5, 8, 4, 8, 0, 7, 5, 7, 0, 0, 1, 5,
      8, 5, 7, 6, 9, 2, 6, 9, 9, 0, 3, 7, 0, 6, 3, 1, 1, 9, 2, 8, 2, 7, 9, 5,
      5, 8, 5, 5, 1, 3, 3, 2, 9, 2, 7, 8, 3, 4, 3, 3, 8, 4, 0, 9, 3, 5, 1, 9,
      7, 8, 0, 1, 5, 5, 3, 1, 2, 4, 6, 5, 9, 7, 2, 6, 3, 5, 7, 9, 5, 7, 4, 6,
      2, 2, 7, 6, 6, 4, 6, 5, 2, 7, 2, 8, 2, 7, 2, 2, 0, 0, 5, 6, 3, 7, 4, 0,
      0, 6, 4, 8, 5, 4, 9, 9, 9, 7, 7, 0, 9, 6, 5, 9, 9, 4, 7, 0, 4, 5, 4, 0,
      2, 0, 8, 2, 8, 1, 6, 6, 2, 2, 6, 2, 3, 7, 8, 5, 7, 3, 9, 3, 4, 5, 0, 7,
      3, 6, 3, 3, 9, 0, 0, 7, 9, 6, 7, 7, 6, 1, 9, 3, 0, 5, 7, 7, 5, 0, 6, 7,
      4, 0, 1, 7, 6, 3, 2, 4, 6, 7, 3, 6, 0, 0, 9, 6, 8, 9, 5, 1, 3, 4, 0, 5,
      3, 5, 5, 3, 7, 4, 5, 8, 5, 1, 6, 6, 6, 1, 1, 3, 4, 2, 2, 3, 7, 6, 6, 6,
      7, 8, 6, 0, 4, 1, 6, 2, 1, 5, 9, 6, 8, 0, 4, 6, 1, 9, 1, 4, 4, 6, 7, 2,
      9, 1, 8, 4, 0, 3, 0, 0, 5, 3, 0, 0, 5, 7, 5, 3, 0, 8, 4, 9, 0, 4, 8, 7,
      6, 5, 3, 9, 1, 7, 1, 1, 3, 8, 6, 5, 9, 1, 6, 4, 6, 2, 3, 9, 5, 2, 4, 9,
      1, 2, 6, 2, 3, 6, 5, 3, 8, 8, 1, 8, 7, 9, 6, 3, 6, 2, 3, 9, 3, 7, 3, 2,
      8, 0, 4, 2, 3, 8, 9, 1, 0, 1, 8, 6, 7, 2, 3, 4, 8, 4, 9, 7, 6, 6, 8, 2,
      3, 5, 0, 8, 9, 8, 6, 3, 3, 8, 8, 5, 8, 7, 9, 2, 5, 6, 2, 8, 3, 0, 2, 7,
      5, 5, 9, 9, 5, 6, 5, 7, 5, 2, 4, 4, 5, 5, 5, 0, 7, 2, 5, 5, 1, 8, 9, 3,
      1, 3, 6, 9, 0, 8, 3, 6, 2, 5, 4, 7, 7, 9, 1, 8, 6, 9, 4, 8, 6, 6, 7, 9,
      9, 4, 9, 6, 8, 3, 2, 4, 0, 4, 9, 7, 0, 5, 8, 2, 1, 0, 2, 8, 5, 1, 3, 1,
      8, 5, 4, 5, 1, 3, 9, 6, 2, 1, 3, 8, 3, 7, 7, 2, 2, 8, 2, 6, 1, 4, 5, 4,
      3, 7, 6, 9, 3, 4, 1, 2, 5, 3, 2, 0, 9, 8, 5, 9, 1, 3, 2, 7, 6, 6, 7, 2,
      3, 6, 3, 2, 8, 1, 2, 5>>

\* The digits of the largest integer of the model, 2^31 - 1.
MaxIntDigits == <<2, 1, 4, 7, 4, 8, 3, 6, 4, 7>>

\* A finite Number that is an integer of the model.
Whole(value) == [kind |-> "finite", int |-> TRUE, value |-> value]

\* The Number (sign) * 0.d1d2... * 10^(exp + Len(digits)), for digits without
\* zeros at either end, as [kind, int, value]: kind is "finite" or
\* "infinite".  A finite value is an integer of the model (int TRUE) when
\* the number is whole and within 2^31 - 1, and the decimal
\* [sign, digits, exp], which stands for sign * digits * 10^exp, otherwise
\* (int FALSE); it is exact, where the double of the code is the nearest to
\* it.
DecimalNumber(sign, digits, exp) ==
    LET order == exp + Len(digits)
    IN  IF Len(digits) = 0 THEN Whole(0)
        ELSE IF order > 309 \/ (order = 309 /\ ~FractionLess(digits, OverflowDigits))
        THEN [kind |-> "infinite", int |-> FALSE, value |-> sign]
        ELSE IF order < -323 \/ (order = -323 /\ ~FractionLess(UnderflowDigits, digits))
        THEN Whole(0)
        ELSE IF /\ exp >= 0
                /\ \/ order < 10
                   \/ order = 10 /\ ~FractionLess(MaxIntDigits, digits)
        THEN Whole(sign * SmallValue(digits) * 10 ^ exp)
        ELSE [kind |-> "finite", int |-> FALSE,
              value |-> [sign |-> sign, digits |-> digits, exp |-> exp]]

\* The same for digits with zeros at their ends.
Decimal(sign, digits, exp) ==
    LET stripped == StripTrailingZeros(StripLeadingZeros(digits), exp)
    IN  IF Len(stripped[1]) = 0 THEN DecimalNumber(sign, <<>>, 0)
        ELSE DecimalNumber(sign, stripped[1], stripped[2])

NotANumber == [kind |-> "nan", int |-> FALSE, value |-> 0]

\* StrUnsignedDecimalLiteral but Infinity: digits with an optional point
\* among or next to them and an optional exponent part.
UnsignedDecimal(sign, str) ==
    LET e        == IndexOf(str, {"e", "E"})
        mantissa == IF e = 0 THEN str ELSE SubSeq(str, 1, e - 1)
        exponent == IF e = 0 THEN <<>> ELSE SubSeq(str, e + 1, Len(str))
        signed   == Len(exponent) > 0 /\ exponent[1] \in {"+", "-"}
        expDigits == IF signed THEN Tail(exponent) ELSE exponent
        expValue == IF e = 0 THEN 0
                    ELSE IF signed /\ exponent[1] = "-" THEN -DigitsValue(expDigits)
                    ELSE DigitsValue(expDigits)
        point    == IndexOf(mantissa, {"."})
        whole    == IF point = 0 THEN mantissa ELSE SubSeq(mantissa, 1, point - 1)
        fraction == IF point = 0 THEN <<>>
                    ELSE SubSeq(mantissa, point + 1, Len(mantissa))
        digits   == [i \in 1..(Len(whole) + Len(fraction)) |->
                       IF i <= Len(whole) THEN DigitOf[whole[i]]
                       ELSE DigitOf[fraction[i - Len(whole)]]]
    IN  IF /\ e = 0 \/ IsDigits(expDigits)
           /\ Len(whole) + Len(fraction) > 0
           /\ Len(whole) = 0 \/ IsDigits(whole)
           /\ Len(fraction) = 0 \/ IsDigits(fraction)
        THEN Decimal(sign, digits, expValue - Len(fraction))
        ELSE NotANumber

\* The radix a NonDecimalIntegerLiteral states with its first two
\* characters, 0 for any other string.
RadixOf(str) ==
    IF Len(str) < 2 \/ str[1] # "0" THEN 0
    ELSE CASE str[2] \in {"x", "X"} -> 16
           [] str[2] \in {"o", "O"} -> 8
           [] str[2] \in {"b", "B"} -> 2
           [] OTHER -> 0

\* Number(str) for a string given as its characters: [kind, value] with kind
\* "finite", "infinite" or "nan" (StringToNumber of ECMAScript).  A string
\* that is empty or white space converts to 0.
JsNumber(str) ==
    LET text   == TrimString(str)
        radix  == RadixOf(text)
        signed == Len(text) > 0 /\ text[1] \in {"+", "-"}
        sign   == IF signed /\ text[1] = "-" THEN -1 ELSE 1
        rest   == IF signed THEN Tail(text) ELSE text
    IN  IF text = <<>> THEN Whole(0)
        ELSE IF radix # 0
        THEN IF IsDigitsOfRadix(SubSeq(text, 3, Len(text)), radix)
             THEN Decimal(1, RadixDigits(SubSeq(text, 3, Len(text)), radix), 0)
             ELSE NotANumber
        ELSE IF rest = InfinityLiteral
        THEN [kind |-> "infinite", int |-> FALSE, value |-> sign]
        ELSE UnsignedDecimal(sign, rest)

\* next > 0 for a finite number.
IsPositive(next) == IF next.int THEN next.value > 0 ELSE next.value.sign > 0

\* The guard of the time-speed handler without its test next > 0.
AcceptsAnyFinite(next) == next.kind = "finite"

\* Number.isFinite(next) && next > 0
AcceptsTimeScale(next) == next.kind = "finite" /\ IsPositive(next)

-----------------------------------------------------------------------------
(* Bounds and inputs *)

\* Frames rendered by the animation loop.
MaxFrames == 3

\* Multiples of 30 degrees on each side of 0 given to normalizeLongitude.
MaxLonSteps == 24

\* Date.now() at load: 2024-12-31T23:59:59.500Z, half a second before the
\* new year.
StartChoices == { [day |-> 20088, ms |-> 86399500] }

\* Wall-clock gaps between two frames, in ms: a 60 Hz frame and a stall.
FrameGaps == {16, 1000}

\* The gaps of the frames that are followed for the readouts: 50 frames a
\* second, and a stall.
IdleGaps == {20, 1000}

\* Values of the time-speed select when its change event fires.
TimeSpeedValues ==
    { <<"6", "0", "0">>, <<" ", "6", "e", "2">>, <<"0">>, <<"-", "6", "0">>, <<>>,
      <<"a", "b", "c">>, InfinityLiteral }

\* Random draws of createFlowLayer for the two layers (see
\* createFlowLayer).  90 degrees is Math.asin(1); the longitude one unit above
\* -180 degrees is a draw of randFloatSpread(360) next to its open end.
LayerDraws ==
    { [wind    |-> << [asin |-> 90 * DegUnit, lon |-> -180 * DegUnit + 1, seed |-> 0],
                     [asin |-> 36 * DegUnit, lon |-> 179 * DegUnit + 1040000,
                      seed |-> 512] >>,
       current |-> << [asin |-> -90 * DegUnit, lon |-> 20 * DegUnit, seed |-> 300] >>],
      [wind    |-> << [asin |-> -88 * DegUnit, lon |-> 180 * DegUnit, seed |-> 1000] >>,
       current |-> << [asin |-> 38 * DegUnit, lon |-> -70 * DegUnit, seed |-> 100],
                     [asin |-> 0, lon |-> -179 * DegUnit - 1040000, seed |-> 900] >>] }

\* The keys of TEXTURE_URLS.
TextureNames == {"earthDay", "earthNormal", "earthSpecular", "earthNight", "earthClouds"}

\* What becomes of the five requests in the boots the specifications other
\* than SpecBoot follow: the loader delivers every texture; or it delivers
\* the day and the night texture, reports an error for the normal map and
\* the clouds, and does not answer for the specular map, whose request its
\* timer rejects.
LoaderAnswers ==
    { [name \in TextureNames |-> "loaded"],
      [earthDay |-> "loaded", earthNormal |-> "failed", earthSpecular |-> "timeout",
       earthNight |-> "loaded", earthClouds |-> "failed"] }

\* How bootstrap() got on: it went through to runBootSequence(), or it
\* called failStartup() with one of its two error codes and returned.
Startups == {"started", "unsupported_webgl", "renderer_init_failed"}

\* Frames rendered by the animation loop after a boot followed request by
\* request.
MaxBootFrames == 1

NoProbe == [fn |-> "none"]

\* Frames rendered by the animation loop of a page left alone.
MaxIdleFrames == 12

\* Positions of a particle handed to updateFlowLayer, in 2^-20 degree: the
\* latitudes run from the pole-most value createFlowLayer stores, 85.5
\* degrees, over 85 and 84 degrees to the mid latitudes and the equator,
\* with the Float32 next below 84 degrees; the longitudes include the
\* largest Float32 below 180 degrees.  One latitude more is that where the
\* meridional wind turns at load, 0.42 times the subsolar latitude.
AdvectLatitudes ==
    { sign * lat : sign \in {-1, 1},
                   lat \in { 85 * DegUnit + DegUnit \div 2, 85 * DegUnit, 84 * DegUnit,
                             84 * DegUnit - 8, 80 * DegUnit, 34 * DegUnit, 0 } }
    \cup { MulDiv(computeSolarContext(DateOf(start, 0)).subsolarLat, 42, 100) :
             start \in StartChoices }

AdvectLongitudes == {-70 * DegUnit, 0, 180 * DegUnit - 16}

AdvectSeeds == {0, 300, 1000}

\* Wall-clock gaps before the frame whose update is looked at, in ms; 0 is
\* the first frame.
AdvectGaps == {0, 16, 1000}

\* Days a sweep at 1-day steps goes on for.
MaxSweepDays == 366

\* Time values state.simulation.timeMs holds when a frame hands it to
\* computeSolarContext(new Date(timeMs)).  timeMs is Date.now() at the load
\* and a frame only adds to it, so the values are those from the day of the
\* load on: 31 December 2024, 1 January and 31 December 2025, 1 January,
\* 29 February and 31 December of the leap year 2028, 1 March and
\* 31 December of 2100, which is no leap year, and 29 February 2400, each at
\* its first millisecond, at noon and at its last millisecond.
SolarDays == {20088, 20089, 20453, 21184, 21243, 21549, 47541, 47846, 157113}

DayTimes == {0, 12 * 3600 * 1000, MsPerDay - 1}

SolarTimes == [kind : {"finite"}, day : SolarDays, ms : DayTimes]

\* Mean speeds of the wind layer (1/Unit) and time scales for
\* getCloudDriftSpeed; 22500 is the speed range of the wind layer.
DriftMeanSpeeds == {0, 5000, 11250, 22500, 30000}

DriftTimeScales == {1, 2, 10, 60, 600, 3600}

\* Longitudes given to normalizeLongitude, as doubles.  Those of the grid of
\* 2^-20 degree: the multiples of 30 degrees up to 720 degrees on each side
\* of 0, and the grid values next to them; no addition of normalizeLongitude
\* rounds these.  Those off the grid: 1, 2 and 4 units of 2^-45 degree away
\* from the multiples of 10 degrees in the same range; from 256 degrees on
\* the sums lon + 180 and ... + 360 have a last place of 2^-44 or 2^-43
\* degree and are rounded.  Of these, the values that are doubles are kept.
LonInputs ==
    { lon \in { ExactSum(Degrees(30 * m), Bits(e * 2 ^ 25)) :
                  m \in (-MaxLonSteps)..MaxLonSteps, e \in {-1, 0, 1} }
             \cup { ExactSum(Degrees(10 * m), Bits(e)) :
                      m \in (-3 * MaxLonSteps)..(3 * MaxLonSteps),
                      e \in {-4, -2, -1, 1, 2, 4} } :
        Rounded(lon) = lon }

-----------------------------------------------------------------------------
(* State machine *)

\* vector.copy(direction).multiplyScalar(7.2)
SunPosition(direction) == [c \in 1..3 |-> RDiv(direction[c] * 72, 10)]

\* sunLight before bootstrap() creates the light.
NoLight == [id |-> "null"]

\* Module load up to and including bootstrap()'s synchronous part.  When
\* supportsWebGL() returns false or the constructor of the renderer throws,
\* bootstrap() calls failStartup() and returns: there is no light, no change
\* handler is bound, no texture is requested and no timer is set.
Init ==
    /\ startMs \in StartChoices
    /\ timeMs = 0
    /\ timeScale = 60
    /\ readoutTimer = DoubleZero
    /\ system = [solarEnabled |-> TRUE, windEnabled |-> TRUE,
                 currentEnabled |-> TRUE, couplingEnabled |-> TRUE]
    /\ windLayer = NoLayer
    /\ currentLayer = NoLayer
    /\ earthMaterial = NoMaterial
    /\ \E startup \in Startups :
         IF startup = "started"
         THEN /\ sunLight = [intensity |-> 190,
                             position |-> SunPosition(STATIC_SUN_DIRECTION)]
              /\ loading = [startup |-> startup,
                            requests |-> [name \in TextureNames |-> "pending"],
                            timer |-> "armed", race |-> "pending"]
         ELSE /\ sunLight = NoLight
              /\ loading = [startup |-> startup,
                            requests |-> [name \in TextureNames |-> "none"],
                            timer |-> "none", race |-> "none"]
    /\ clock = [running |-> FALSE, elapsedTime |-> 0]
    /\ frame = 0
    /\ boot = [bootDone |-> FALSE, meshesReady |-> FALSE, loop |-> FALSE]
    /\ cloudsMesh = NoMesh
    /\ nightLightsMesh = NoMesh
    /\ atmosphereMesh = NoMesh
    /\ scratch = [sunDirection |-> <<0, 0, 0>>, staticSun |-> STATIC_SUN_DIRECTION]
    /\ aligned = NoContext
    /\ readout = NoReadout
    /\ probe = NoProbe

\* buildEarth(textures): earthMaterial after the call.
buildEarth(material) ==
    IF material # NoMaterial THEN material
    ELSE [id |-> "earth", shininess |-> 22 * Unit, specular |-> <<307, 802, 1590>>]

\* The meshes buildEarth(textures) adds next to the earth: the clouds and the
\* night lights if their texture is there, and the atmosphere; the uniform
\* sunDirection of the two shader materials starts at (1, 0, 0).
\* buildEarth returns at once, and adds nothing, when the earth is there
\* (earth is earthMaterial before the call).
buildClouds(earth, mesh, textures) ==
    IF earth # NoMaterial THEN mesh
    ELSE IF textures.earthClouds THEN [id |-> "clouds", rotationY |-> 0] ELSE mesh

buildNightLights(earth, mesh, textures) ==
    IF earth # NoMaterial THEN mesh
    ELSE IF textures.earthNight
    THEN [id |-> "nightLights", sunDirection |-> <<Unit, 0, 0>>]
    ELSE mesh

buildAtmosphere(earth, mesh) ==
    IF earth # NoMaterial THEN mesh
    ELSE [id |-> "atmosphere", sunDirection |-> <<Unit, 0, 0>>]

\* The object computeSolarContext returns for the values ctx: its
\* sunDirection is scratch.sunDirection itself, not a copy.
ContextObject(ctx) == [ctx EXCEPT !.sunDirection = ScratchSunDirection]

\* ensureSystemLayers() without its last two statements: the groups keep
\* the visibility they are created with.
ensureSystemLayersAsCreated(wind, current, sys, windDraws, currentDraws) ==
    IF wind # NoLayer \/ current # NoLayer THEN <<wind, current>>
    ELSE << createFlowLayer(WindConfig, windDraws),
            createFlowLayer(CurrentConfig, currentDraws) >>

\* ensureSystemLayers(): <<windLayer, currentLayer>> after the call.
ensureSystemLayers(wind, current, sys, windDraws, currentDraws) ==
    IF wind # NoLayer \/ current # NoLayer THEN <<wind, current>>
    ELSE << [createFlowLayer(WindConfig, windDraws) EXCEPT !.visible = sys.windEnabled],
            [createFlowLayer(CurrentConfig, currentDraws)
                EXCEPT !.visible = sys.currentEnabled] >>

\* The textures object with no texture in it.
NoTextures == [earthDay |-> FALSE, earthClouds |-> FALSE, earthNight |-> FALSE]

\* The boot from the moment the race of runBootSequence() is settled.
\* Fulfilled with textures: buildEarth(textures), ensureSystemLayers() and
\* finishBoot(), then the handler bootstrap() attached with then.  Rejected
\* (caught): the handler attached with catch makes the three calls, with no
\* texture, only when the boot is not done.  Either handler ends with
\* alignInitialEarthFacing(), which computes a solar context, and starts the
\* animation loop.
Boot(draws, textures, caught) ==
    /\ \E layers \in { ensureSystemLayers(windLayer, currentLayer, system,
                                           draws.wind, draws.current) } :
       LET skipped == caught /\ boot.bootDone
           given   == IF caught THEN NoTextures ELSE textures
       IN  /\ windLayer' = IF skipped THEN windLayer ELSE layers[1]
           /\ currentLayer' = IF skipped THEN currentLayer ELSE layers[2]
           /\ cloudsMesh' = IF skipped THEN cloudsMesh
                            ELSE buildClouds(earthMaterial, cloudsMesh, given)
           /\ nightLightsMesh' = IF skipped THEN nightLightsMesh
                                 ELSE buildNightLights(earthMaterial, nightLightsMesh,
                                                       given)
           /\ atmosphereMesh' = IF skipped THEN atmosphereMesh
                                ELSE buildAtmosphere(earthMaterial, atmosphereMesh)
           /\ earthMaterial' = IF skipped THEN earthMaterial
                               ELSE buildEarth(earthMaterial)
    /\ boot' = [bootDone |-> TRUE, meshesReady |-> TRUE, loop |-> TRUE]
    /\ \E solarContext \in { computeSolarContext(DateOf(startMs, timeMs)) } :
         /\ scratch' = [scratch EXCEPT !.sunDirection = solarContext.sunDirection]
         /\ aligned' = ContextObject(solarContext)
    /\ UNCHANGED <<startMs, timeMs, timeScale, readoutTimer, system, sunLight,
                   clock, frame, readout, probe>>

\* The textures object loadTextures() returns: the textures of the fulfilled
\* requests (those buildEarth looks at).
loadTextures(requests) ==
    [earthDay    |-> requests["earthDay"] = "loaded",
     earthClouds |-> requests["earthClouds"] = "loaded",
     earthNight  |-> requests["earthNight"] = "loaded"]

\* Promise.allSettled(requests) is settled.
allSettled(requests) == \A name \in TextureNames : requests[name] # "pending"

\* The request of loadTextureWithTimeout for name with no timer of its own.
settleOnTimeoutNever(requests, name) == requests

\* The timer of loadTextureWithTimeout rejects the request for name.
settleOnTimeout(requests, name) == [requests EXCEPT ![name] = "timeout"]

\* The outcomes of a request of loadTextureWithTimeout: the load callback of
\* loader.load fulfils it, its error callback rejects it, or the loader has
\* not answered TEXTURE_TIMEOUT_MS after the request and the timer rejects
\* it.
Outcomes == {"loaded", "failed", "timeout"}

\* The request for name settles with outcome.  With the last request
\* Promise.allSettled delivers and loadTextures() returns; when the race of
\* runBootSequence() is still open this fulfils it and the boot goes on in
\* the same turn of the event loop.  After a boot timeout the textures are
\* dropped.
TextureSettled(name, outcome) ==
    /\ loading.requests[name] = "pending"
    /\ \E requests \in { IF outcome = "timeout"
                          THEN settleOnTimeout(loading.requests, name)
                          ELSE [loading.requests EXCEPT ![name] = outcome] } :
         /\ requests # loading.requests
         /\ IF allSettled(requests) /\ loading.race = "pending"
            THEN /\ loading' = [loading EXCEPT !.requests = requests,
                                               !.race = "fulfilled"]
                 /\ \E draws \in LayerDraws :
                      Boot(draws, loadTextures(requests), FALSE)
            ELSE /\ loading' = [loading EXCEPT !.requests = requests]
                 /\ UNCHANGED <<startMs, timeMs, timeScale, readoutTimer, system,
                                windLayer, currentLayer, earthMaterial, sunLight,
                                clock, frame, boot, cloudsMesh, nightLightsMesh,
                                atmosphereMesh, scratch, aligned, readout, probe>>

\* The timer of delay(BOOT_TIMEOUT_MS): it rejects the race of
\* runBootSequence() when the race is still open, and the catch handler of
\* bootstrap() boots without textures.  The order in which this timer, the
\* timers of the requests and the callbacks of the loader run is left open.
BootTimedOut ==
    /\ loading.timer = "armed"
    /\ IF loading.race = "pending"
       THEN /\ loading' = [loading EXCEPT !.timer = "fired", !.race = "rejected"]
            /\ \E draws \in LayerDraws : Boot(draws, NoTextures, TRUE)
       ELSE /\ loading' = [loading EXCEPT !.timer = "fired"]
            /\ UNCHANGED <<startMs, timeMs, timeScale, readoutTimer, system, windLayer,
                           currentLayer, earthMaterial, sunLight, clock, frame, boot,
                           cloudsMesh, nightLightsMesh, atmosphereMesh, scratch,
                           aligned, readout, probe>>

\* setupUiBindings() has run: the change handlers are bound.
Bound == loading.startup = "started"

\* The change handlers of the four checkboxes.
ToggleSolar ==
    /\ Bound
    /\ system' = [system EXCEPT !.solarEnabled = ~@]
    /\ UNCHANGED <<startMs, timeMs, timeScale, readoutTimer, windLayer, currentLayer,
                   earthMaterial, sunLight, clock, frame, boot, probe, sceneVars>>

ToggleWind ==
    /\ Bound
    /\ system' = [system EXCEPT !.windEnabled = ~@]
    /\ windLayer' = IF windLayer # NoLayer
                    THEN [windLayer EXCEPT !.visible = system'.windEnabled]
                    ELSE windLayer
    /\ UNCHANGED <<startMs, timeMs, timeScale, readoutTimer, currentLayer,
                   earthMaterial, sunLight, clock, frame, boot, probe, sceneVars>>

ToggleCurrent ==
    /\ Bound
    /\ system' = [system EXCEPT !.currentEnabled = ~@]
    /\ currentLayer' = IF currentLayer # NoLayer
                       THEN [currentLayer EXCEPT !.visible = system'.currentEnabled]
                       ELSE currentLayer
    /\ UNCHANGED <<startMs, timeMs, timeScale, readoutTimer, windLayer,
                   earthMaterial, sunLight, clock, frame, boot, probe, sceneVars>>

ToggleCoupling ==
    /\ Bound
    /\ system' = [system EXCEPT !.couplingEnabled = ~@]
    /\ UNCHANGED <<startMs, timeMs, timeScale, readoutTimer, windLayer, currentLayer,
                   earthMaterial, sunLight, clock, frame, boot, probe, sceneVars>>

\* The change handler of the time-speed select: timeScale after the event.
TimeScaleAfter(scale, value) ==
    LET next == JsNumber(value)
    IN  IF AcceptsTimeScale(next) THEN next.value ELSE scale

SetTimeScale ==
    /\ Bound
    /\ timeScale' \in { TimeScaleAfter(timeScale, value) : value \in TimeSpeedValues }
    /\ UNCHANGED <<startMs, timeMs, readoutTimer, system, windLayer, currentLayer,
                   earthMaterial, sunLight, clock, frame, boot, probe, sceneVars>>

\* clock.getDelta() of THREE.Clock, gap ms after the call before: the first
\* call starts the clock and returns 0.  <<delta, clock after the call>>.
getDelta(clk, gap) ==
    IF ~clk.running THEN <<0, [clk EXCEPT !.running = TRUE]>>
    ELSE <<gap, [clk EXCEPT !.elapsedTime = @ + gap]>>

\* The delta of a frame clamped to 0.1 s, twice what the code allows.
ClampDeltaTenth(diff) == Min(diff, 100)

\* Math.min(clock.getDelta(), 0.05), in ms
ClampDelta(diff) == Min(diff, 50)

\* The clock advance without the time scale.
AdvanceTimeUnscaled(t, delta, scale) == t + delta

\* The clock advance with = in place of +=.
AdvanceTimeAssign(t, delta, scale) == delta * scale

\* state.simulation.timeMs += delta * 1000 * state.simulation.timeScale
AdvanceTime(t, delta, scale) == t + delta * scale

\* cloudsMesh.rotation.y += delta * drift, if there are clouds; delta in ms,
\* drift in 10^-6 rad/s.
rotateClouds(mesh, delta, drift) ==
    IF mesh = NoMesh THEN mesh ELSE [mesh EXCEPT !.rotationY = @ + delta * drift]

\* The uniform left as it is.
copySunDirectionSkipped(mesh, sunDirection) == mesh

\* mesh.material.uniforms.sunDirection.value.copy(sunDirection), if the mesh
\* is there.
copySunDirection(mesh, sunDirection) ==
    IF mesh = NoMesh THEN mesh ELSE [mesh EXCEPT !.sunDirection = sunDirection]

\* animate(): one frame of the animation loop, the loop running limit frames
\* at most, gaps ms after the frame before.
Frame(limit, gaps) ==
    /\ boot.loop
    /\ frame < limit
    /\ \E gap \in gaps :
       \E got \in { getDelta(clock, gap) } :
       \E delta \in { ClampDelta(got[1]) } :
       \E t \in { AdvanceTime(timeMs, delta, timeScale) } :
       \E solarContext \in { computeSolarContext(DateOf(startMs, t)) } :
       \E wind \in SyncAndUpdate(windLayer, system.windEnabled, delta, solarContext) :
       \E current \in SyncAndUpdate(currentLayer, system.currentEnabled, delta,
                                    solarContext) :
       \E shown \in { updateReadouts(readoutTimer, readout, delta, DateOf(startMs, t),
                                      solarContext, system, wind, current) } :
         LET sunDirection == IF system.solarEnabled THEN solarContext.sunDirection
                                                    ELSE scratch.staticSun
         IN  /\ clock' = got[2]
             /\ timeMs' = t
             /\ scratch' = [scratch EXCEPT !.sunDirection = solarContext.sunDirection]
             /\ sunLight' = [intensity |-> IF system.solarEnabled THEN 192 ELSE 165,
                             position  |-> SunPosition(sunDirection)]
             /\ cloudsMesh' = rotateClouds(cloudsMesh, delta,
                                           getCloudDriftSpeed(system, windLayer, timeScale))
             /\ nightLightsMesh' = copySunDirection(nightLightsMesh, sunDirection)
             /\ atmosphereMesh' = copySunDirection(atmosphereMesh, sunDirection)
             /\ windLayer' = wind
             /\ currentLayer' = current
             /\ earthMaterial' = applyCoupling(earthMaterial, system, wind, current)
             /\ readoutTimer' = shown[1]
             /\ readout' = shown[2]
    /\ frame' = frame + 1
    /\ UNCHANGED <<startMs, timeScale, system, boot, aligned, loading, probe>>

Tick == Frame(MaxFrames, FrameGaps)

\* The request for name can settle with outcome in a boot that goes by
\* LoaderAnswers: some answers of the loader agree with it and with the
\* requests settled so far.
Foreseen(name, outcome) ==
    \E answers \in LoaderAnswers :
        /\ answers[name] = outcome
        /\ \A other \in TextureNames :
              loading.requests[other] \in {"pending", answers[other]}

\* A request settles as LoaderAnswers has it.
TextureAnswered ==
    \E name \in TextureNames : \E outcome \in Outcomes :
        Foreseen(name, outcome) /\ TextureSettled(name, outcome)

\* The boot timer runs after the loader and the timers of the requests, which
\* are set 4 s shorter, have settled every request.
BootTimerRan == allSettled(loading.requests) /\ BootTimedOut

\* The steps of the page until the boot timer, 12 s after the load, runs; the
\* boot timer is followed in SpecIdle and, in any order with the requests,
\* in SpecBoot.
Next ==
    \/ TextureAnswered
    \/ ToggleSolar
    \/ ToggleWind
    \/ ToggleCurrent
    \/ ToggleCoupling
    \/ SetTimeScale
    \/ Tick

Spec == Init /\ [][Next]_vars

\* normalizeLongitude applied to an input longitude, and applied again to
\* its own result.
ApplyNormalize ==
    /\ probe = NoProbe
    /\ \E lon \in LonInputs :
       \E out \in { normalizeLongitudeDouble(lon) } :
       \E again \in { normalizeLongitudeDouble(out) } :
         probe' = [fn |-> "normalizeLongitude", arg |-> lon, out |-> out,
                   again |-> again]
    /\ UNCHANGED <<startMs, timeMs, timeScale, readoutTimer, system, windLayer,
                   currentLayer, earthMaterial, sunLight, clock, frame, boot, sceneVars>>

\* The page left alone: the boot, then the frames of the animation loop with
\* no event of the controls in between.
IdleTick == Frame(MaxIdleFrames, IdleGaps)

SpecIdle == Init /\ [][TextureAnswered \/ BootTimerRan \/ IdleTick]_vars

\* The boot followed request by request and timer by timer, with the two
\* layer toggles and the first frames of the animation loop.
BootTick == Frame(MaxBootFrames, FrameGaps)

NextBoot ==
    \/ \E name \in TextureNames : \E outcome \in Outcomes : TextureSettled(name, outcome)
    \/ BootTimedOut
    \/ ToggleWind
    \/ ToggleCurrent
    \/ BootTick

\* The timer of the request for name is set and not cleared: the guards of
\* the step TextureSettled(name, "timeout"), which is enabled in exactly
\* these states.
TimerArmed(name) ==
    /\ loading.requests[name] = "pending"
    /\ settleOnTimeout(loading.requests, name) # loading.requests

\* A timer of window.setTimeout that is not cleared runs in the end: weak
\* fairness of the timer of each request, WF_vars(TextureSettled(name,
\* "timeout")), written out with TimerArmed for the enabling condition.
\* Nothing is asked of the loader or of the boot timer.
SpecBoot ==
    /\ Init
    /\ [][NextBoot]_vars
    /\ \A name \in TextureNames :
         \/ []<>(~TimerArmed(name))
         \/ []<><<TextureSettled(name, "timeout")>>_vars

SpecNormalize == Init /\ [][ApplyNormalize]_vars

\* A layer of the given config with one particle at (lat, lon).
LayerWithParticle(config, lat, lon, seed) ==
    [createFlowLayer(config, << [asin |-> 0, lon |-> 0, seed |-> seed] >>) EXCEPT
        !.latitudes = [i \in 1..1 |-> lat], !.longitudes = [i \in 1..1 |-> lon]]

\* One iteration of the loop of updateFlowLayer, for a particle at an input
\* position, in the frame that comes gap ms after the one before.
ApplyAdvect ==
    /\ probe = NoProbe
    /\ \E config \in {WindConfig, CurrentConfig} :
       \E lat \in AdvectLatitudes :
       \E lon \in AdvectLongitudes :
       \E seed \in AdvectSeeds :
       \E gap \in AdvectGaps :
       \E delta \in { ClampDelta(gap) } :
       \E solarContext \in { computeSolarContext(
                                 DateOf(startMs, AdvanceTime(timeMs, delta, timeScale))) } :
       \E out \in AdvectParticle(LayerWithParticle(config, lat, lon, seed), 1, delta,
                                  solarContext) :
         probe' = [fn |-> "updateFlowLayer", layer |-> config.id, lat |-> lat,
                   lon |-> lon, seed |-> seed, delta |-> delta,
                   drift |-> config.speedToDegrees * delta, out |-> out]
    /\ UNCHANGED <<startMs, timeMs, timeScale, readoutTimer, system, windLayer,
                   currentLayer, earthMaterial, sunLight, clock, frame, boot, sceneVars>>

SpecAdvect == Init /\ [][ApplyAdvect]_vars

\* A wind layer whose last update left the mean speed m.
WindWithMeanSpeed(m) == [createFlowLayer(WindConfig, << >>) EXCEPT !.meanSpeed = m]

\* getCloudDriftSpeed() called in two states that differ in the mean speed of
\* the wind layer and in the time scale, lo having the smaller of each.
ApplyDrift ==
    /\ \E coupling \in BOOLEAN :
       \E lo \in [meanSpeed : DriftMeanSpeeds, timeScale : DriftTimeScales] :
       \E hi \in [meanSpeed : DriftMeanSpeeds, timeScale : DriftTimeScales] :
         /\ lo.meanSpeed <= hi.meanSpeed
         /\ lo.timeScale <= hi.timeScale
         /\ probe' = [fn |-> "getCloudDriftSpeed", coupling |-> coupling,
                      lo |-> lo, hi |-> hi,
                      outLo |-> getCloudDriftSpeed(
                                    [system EXCEPT !.couplingEnabled = coupling],
                                    WindWithMeanSpeed(lo.meanSpeed), lo.timeScale),
                      outHi |-> getCloudDriftSpeed(
                                    [system EXCEPT !.couplingEnabled = coupling],
                                    WindWithMeanSpeed(hi.meanSpeed), hi.timeScale)]
    /\ UNCHANGED <<startMs, timeMs, timeScale, readoutTimer, system, windLayer,
                   currentLayer, earthMaterial, sunLight, clock, frame, boot, sceneVars>>

SpecDrift == Init /\ [][ApplyDrift]_vars

\* computeSolarContext(new Date(timeMs)) for a time value: the call writes
\* the direction of the sun to scratch.sunDirection, the vector the context
\* it returns refers to.
ApplySolar ==
    /\ probe = NoProbe
    /\ \E time \in SolarTimes :
       \E out \in { SolarContextOfTime(time) } :
         /\ probe' = [fn |-> "computeSolarContext", time |-> time, swept |-> 0,
                      out |-> out]
         /\ scratch' = [scratch EXCEPT !.sunDirection = out.context.sunDirection]
    /\ UNCHANGED <<startMs, timeMs, timeScale, readoutTimer, system, windLayer,
                   currentLayer, earthMaterial, sunLight, clock, frame, boot,
                   cloudsMesh, nightLightsMesh, atmosphereMesh, aligned, readout,
                   loading>>

\* The same one day later.
StepDay ==
    /\ probe.fn = "computeSolarContext"
    /\ probe.swept < MaxSweepDays
    /\ NewDate(probe.time).valid
    /\ \E time \in { [probe.time EXCEPT !.day = @ + 1] } :
       \E out \in { SolarContextOfTime(time) } :
         /\ probe' = [fn |-> "computeSolarContext", time |-> time,
                      swept |-> probe.swept + 1, out |-> out]
         /\ scratch' = [scratch EXCEPT !.sunDirection = out.context.sunDirection]
    /\ UNCHANGED <<startMs, timeMs, timeScale, readoutTimer, system, windLayer,
                   currentLayer, earthMaterial, sunLight, clock, frame, boot,
                   cloudsMesh, nightLightsMesh, atmosphereMesh, aligned, readout,
                   loading>>

SpecSolar == Init /\ [][ApplySolar \/ StepDay]_vars

-----------------------------------------------------------------------------
(* Properties *)

\* The step is a frame of the animation loop.
FrameRan == frame' = frame + 1

\* The flow layers that exist, each with its toggle.
Layers ==
    { e \in { [layer |-> windLayer, enabled |-> system.windEnabled],
              [layer |-> currentLayer, enabled |-> system.currentEnabled] } :
        e.layer # NoLayer }

Latitudes == UNION { { e.layer.latitudes[i] : i \in 1..e.layer.count } : e \in Layers }

Longitudes == UNION { { e.layer.longitudes[i] : i \in 1..e.layer.count } : e \in Layers }

IsZero(array) == \A k \in DOMAIN array : array[k] = 0

\* after is before with the aggregates reset and the particles and buffers
\* as they were.
Frozen(before, after) ==
    /\ after.meanSpeed = 0
    /\ after.meanZonal = 0
    /\ after.latitudes = before.latitudes
    /\ after.longitudes = before.longitudes
    /\ after.positionArray = before.positionArray
    /\ after.colorArray = before.colorArray

\* after has the particles of before.
SameParticles(before, after) ==
    /\ after.latitudes = before.latitudes
    /\ after.longitudes = before.longitudes

\* C1: a frame run while a layer's toggle is off sets the layer's meanSpeed
\* and meanZonal to 0 and leaves its latitudes, longitudes, position buffer
\* and colour buffer as they were; no event between frames moves a particle,
\* so the first frame after re-enabling starts from the frozen positions.
C1_DisabledFrameFreezes ==
    [][/\ FrameRan =>
            /\ (windLayer # NoLayer /\ ~system.windEnabled)
                  => Frozen(windLayer, windLayer')
            /\ (currentLayer # NoLayer /\ ~system.currentEnabled)
                  => Frozen(currentLayer, currentLayer')
       /\ ~FrameRan =>
            /\ (windLayer # NoLayer) => SameParticles(windLayer, windLayer')
            /\ (currentLayer # NoLayer)
                  => SameParticles(currentLayer, currentLayer')]_vars

\* The wind layer was updated while enabled (its buffers are written), then
\* disabled, and a frame has run since (its mean speed is 0).
C1_Witness ==
    /\ windLayer # NoLayer
    /\ frame >= 2
    /\ ~system.windEnabled
    /\ ~IsZero(windLayer.positionArray)
    /\ windLayer.meanSpeed = 0
    /\ windLayer.meanZonal = 0

\* C2 as stated: a frame run while a layer's toggle is off leaves the layer's
\* meanSpeed and meanZonal at the value of the last enabled frame.
C2_AggregateRetained ==
    [][FrameRan =>
         /\ (windLayer # NoLayer /\ ~system.windEnabled)
               => /\ windLayer'.meanSpeed = windLayer.meanSpeed
                  /\ windLayer'.meanZonal = windLayer.meanZonal
         /\ (currentLayer # NoLayer /\ ~system.currentEnabled)
               => /\ currentLayer'.meanSpeed = currentLayer.meanSpeed
                  /\ currentLayer'.meanZonal = currentLayer.meanZonal]_vars

\* C2 amended: the toggle event itself leaves meanSpeed and meanZonal at the
\* last computed value, and the aggregates change in frames only; every frame
\* run while the toggle is off resets both to 0.
C2_AggregateResetByFrame ==
    [][/\ ~FrameRan =>
            /\ (windLayer # NoLayer)
                  => /\ windLayer'.meanSpeed = windLayer.meanSpeed
                     /\ windLayer'.meanZonal = windLayer.meanZonal
            /\ (currentLayer # NoLayer)
                  => /\ currentLayer'.meanSpeed = currentLayer.meanSpeed
                     /\ currentLayer'.meanZonal = currentLayer.meanZonal
       /\ FrameRan =>
            /\ (windLayer # NoLayer /\ ~system.windEnabled)
                  => windLayer'.meanSpeed = 0 /\ windLayer'.meanZonal = 0
            /\ (currentLayer # NoLayer /\ ~system.currentEnabled)
                  => currentLayer'.meanSpeed = 0 /\ currentLayer'.meanZonal = 0]_vars

\* The current layer is disabled and still holds the aggregate of its last
\* enabled frame: the toggle event did not reset it.
C2_Witness ==
    /\ currentLayer # NoLayer
    /\ ~system.currentEnabled
    /\ ~currentLayer.visible
    /\ currentLayer.meanSpeed > 0
    /\ frame >= 1

\* C3 as stated: every particle's latitude is in [-85, 85] degrees.
C3_LatitudeWithin85 ==
    \A lat \in Latitudes : -85 * DegUnit <= lat /\ lat <= 85 * DegUnit

\* C3 amended: every particle's latitude is in [-85.5, 85.5] degrees, the
\* range of asin(x) * 0.95 at construction.
C3_LatitudeWithin85Half ==
    \A lat \in Latitudes : -171 * (DegUnit \div 2) <= lat /\ lat <= 171 * (DegUnit \div 2)

\* A particle of the wind layer was created at 85.5 degrees and, the layer
\* being disabled before any frame, is still there after a frame.
C3_Witness ==
    /\ windLayer # NoLayer
    /\ frame >= 1
    /\ \E i \in 1..windLayer.count : windLayer.latitudes[i] = 171 * (DegUnit \div 2)

\* C4: every particle's stored longitude is in (-180, 180] degrees.
C4_LongitudeInRange ==
    \A lon \in Longitudes : -180 * DegUnit < lon /\ lon <= 180 * DegUnit

\* The double x is a value of the grid of 2^-20 degree.
OnGrid(x) == x.lo % 2 ^ 25 = 0

\* out - arg, as a real number, reduced to less than one turn: [hi, lo] in
\* 2^-45 degree.
TurnsOff(out, arg) == Remainder360(ExactSum(out, [arg EXCEPT !.neg = ~@ /\ arg # Bits(0)]))

\* The double x is within 4 units of 2^-45 degree, which are 2^-43 degree, of
\* a whole number of turns.
NearWholeTurn(x) ==
    \/ x.hi = 0 /\ x.lo <= 4
    \/ x.hi = 360 * 2 ^ 15 - 1 /\ x.lo >= Limb - 4

\* C5: normalizeLongitude returns a value in (-180, 180] degrees that differs
\* from its argument by a multiple of 360 degrees, and maps -180 to 180.  The
\* difference is a multiple of 360 degrees exactly for every argument of the
\* grid of 2^-20 degree, and to the rounding of the additions, 2^-43 degree,
\* for the arguments off it.
C5_NormalizeRange ==
    probe # NoProbe =>
        /\ probe.out.neg => DoubleLess(probe.out, Degrees(180))
        /\ ~probe.out.neg => ~DoubleLess(Degrees(180), probe.out)
        /\ OnGrid(probe.arg) => TurnsOff(probe.out, probe.arg) = Bits(0)
        /\ NearWholeTurn(TurnsOff(probe.out, probe.arg))
        /\ (probe.arg = Degrees(-180)) => (probe.out = Degrees(180))

\* normalizeLongitude was applied to -180 degrees.
C5_Witness ==
    /\ probe # NoProbe
    /\ probe.arg = Degrees(-180)
    /\ probe.out = Degrees(180)

\* C6: normalizeLongitude applied to its own result returns that result.
C6_NormalizeIdempotent ==
    probe # NoProbe => probe.again = probe.out

\* C7 as stated: the simulated time advanced equals the wall-clock time run
\* times timeScale; a frame keeps that relation.
C7_WallTimeScaled ==
    [][(FrameRan /\ timeMs = clock.elapsedTime * timeScale)
          => timeMs' = clock'.elapsedTime * timeScale']_vars

\* C7 amended: the relation is kept by every frame whose gap to the frame
\* before is at most 0.05 s.
C7_WallTimeScaledUnlessStalled ==
    [][(/\ FrameRan
        /\ clock'.elapsedTime - clock.elapsedTime <= 50
        /\ timeMs = clock.elapsedTime * timeScale)
          => timeMs' = clock'.elapsedTime * timeScale']_vars

\* Two frames 16 ms apart have run at timeScale 600: 32 ms of wall-clock time
\* advanced the simulated time by 32 * 600 ms.
C7_Witness ==
    /\ frame = 3
    /\ clock.elapsedTime = 32
    /\ timeScale = 600
    /\ timeMs = 19200

\* C8: a frame advances timeMs by the clamped delta times timeScale, the
\* clamped delta being the frame gap cut at 50 ms, so by at most
\* 50 * timeScale.
C8_FrameAdvanceClamped ==
    [][FrameRan =>
         /\ timeMs' - timeMs = Min(clock'.elapsedTime - clock.elapsedTime, 50) * timeScale
         /\ timeMs' - timeMs <= 50 * timeScale]_vars

\* A frame has run one second after the frame before, at timeScale 60: the
\* simulated time advanced by 50 * 60 ms.
C8_Witness ==
    /\ frame = 2
    /\ clock.elapsedTime = 1000
    /\ timeScale = 60
    /\ timeMs = 3000

\* C9: timeMs never decreases, and only a frame changes it.
C9_TimeMonotonic ==
    [][/\ startMs' = startMs
       /\ timeMs' >= timeMs
       /\ (timeMs' # timeMs) => FrameRan]_vars

\* Frames have advanced the simulated time, the wind toggle is off and the
\* time scale was changed to 600.
C9_Witness ==
    /\ frame = 3
    /\ timeMs > 3000
    /\ timeScale = 600
    /\ ~system.windEnabled

\* C10: timeScale is positive in every state; an event leaves it unchanged
\* unless the selected value converts to a finite positive number, which then
\* replaces it.
C10_TimeScalePositive ==
    /\ timeScale > 0
    /\ [][/\ timeScale' > 0
          /\ (timeScale' # timeScale)
                => \E value \in TimeSpeedValues :
                      /\ JsNumber(value).kind = "finite"
                      /\ JsNumber(value).int
                      /\ JsNumber(value).value > 0
                      /\ timeScale' = JsNumber(value).value]_vars

\* The time scale was changed from 60 to 600 and frames have run with it.
C10_Witness ==
    /\ timeScale = 600
    /\ frame >= 2
    /\ timeMs > 0

\* The clamped delta of the frame being run, in ms.
FrameDelta == Min(clock'.elapsedTime - clock.elapsedTime, 50)

\* The angle the clouds turn by in the frame being run, in 10^-9 rad.
CloudTurn == cloudsMesh'.rotationY - cloudsMesh.rotationY

\* C11: the coupling outputs applied in a frame, the drift speed that turns
\* the clouds and the ocean material, are computed from the aggregates the
\* flow layers have after their update in that frame.
C11_CouplingAfterFlowUpdates ==
    [][FrameRan =>
         /\ earthMaterial' = applyCoupling(earthMaterial, system, windLayer', currentLayer')
         /\ (cloudsMesh # NoMesh)
               => CloudTurn = FrameDelta * getCloudDriftSpeed(system, windLayer', timeScale)]_vars

\* C12: a frame run with the coupling off turns the clouds at 0.062 rad/s and
\* sets the ocean material to shininess 22 and specular 0x31506f, whatever
\* the aggregates, the wind and current toggles and the time scale.
C12_BaselinesWhenUncoupled ==
    [][(FrameRan /\ ~system.couplingEnabled) =>
         /\ (cloudsMesh # NoMesh) => CloudTurn = FrameDelta * 62000
         /\ (earthMaterial' # NoMaterial)
               => /\ earthMaterial'.shininess = 22 * Unit
                  /\ earthMaterial'.specular = <<307, 802, 1590>>]_vars

\* With the coupling off, a frame of 16 ms has turned the clouds by
\* 16 * 0.062 mrad at time scale 600 while the wind layer has a mean speed.
C12_Witness ==
    /\ ~system.couplingEnabled
    /\ frame = 2
    /\ timeScale = 600
    /\ cloudsMesh # NoMesh
    /\ cloudsMesh.rotationY = 16 * 62000
    /\ windLayer.meanSpeed > 0
    /\ earthMaterial.shininess = 22 * Unit

\* C13: after a frame run with the coupling on, the shininess is
\* 20 + currentFactor * 16 + windFactor * 6, each factor being the layer's
\* meanSpeed / speedRange clamped to [0, 1]; it lies in [20, 42], and a
\* disabled layer contributes the factor 0.
C13_ShininessFormula ==
    [][(FrameRan /\ system.couplingEnabled /\ earthMaterial' # NoMaterial) =>
         LET windFactor    == clamp(RDiv(windLayer'.meanSpeed * Unit,
                                         windLayer'.speedRange), 0, Unit)
             currentFactor == clamp(RDiv(currentLayer'.meanSpeed * Unit,
                                         currentLayer'.speedRange), 0, Unit)
         IN  /\ earthMaterial'.shininess
                   = 20 * Unit + currentFactor * 16 + windFactor * 6
             /\ earthMaterial'.shininess >= 20 * Unit
             /\ earthMaterial'.shininess <= 42 * Unit
             /\ ~system.windEnabled => windFactor = 0
             /\ ~system.currentEnabled => currentFactor = 0]_vars

\* With the coupling on, the wind layer disabled and the current layer
\* enabled, a frame has set the shininess from the current factor alone.
C13_Witness ==
    /\ system.couplingEnabled
    /\ frame >= 1
    /\ earthMaterial # NoMaterial
    /\ ~system.windEnabled
    /\ windLayer.meanSpeed = 0
    /\ currentLayer.meanSpeed > 0
    /\ earthMaterial.shininess > 20 * Unit
    /\ earthMaterial.shininess = 20 * Unit + FlowFactor(currentLayer) * 16

\* 0.038 + clamp(meanSpeed / 2.25, 0, 1) * 0.037 + timeBoost in 10^-6 rad/s,
\* timeBoost being log10(timeScale + 1) * 0.006 above time scale 1.
CoupledDrift(in) ==
    38000 + RDiv(clamp(RDiv(in.meanSpeed * Unit, 22500), 0, Unit) * 37, 10)
          + (IF in.timeScale > 1 THEN RDiv(Log10(in.timeScale + 1) * 6, 10) ELSE 0)

\* C14: with the coupling on, the cloud drift speed is
\* 0.038 + clamp(windMeanSpeed / windSpeedRange, 0, 1) * 0.037 + timeBoost,
\* and it does not decrease when the time scale or the mean wind speed grows.
C14_CloudDriftFormula ==
    (probe.fn = "getCloudDriftSpeed" /\ probe.coupling) =>
        /\ probe.outLo = CoupledDrift(probe.lo)
        /\ probe.outHi = CoupledDrift(probe.hi)
        /\ probe.outLo <= probe.outHi

\* The drift speed was computed for a still wind layer at time scale 1 and
\* for a wind layer above its speed range at time scale 600.
C14_Witness ==
    /\ probe.fn = "getCloudDriftSpeed"
    /\ probe.coupling
    /\ probe.lo = [meanSpeed |-> 0, timeScale |-> 1]
    /\ probe.hi = [meanSpeed |-> 30000, timeScale |-> 600]
    /\ probe.outLo = 38000
    /\ probe.outHi = 38000 + 37000 + 16673

\* C15: in a frame the sun direction is the static direction when the solar
\* toggle is off, with light intensity 1.65, and the direction of the solar
\* context of that frame when it is on, with intensity 1.92; the light
\* position, the night-lights uniform and the atmosphere uniform all get that
\* direction.
C15_SunDirectionByToggle ==
    [][FrameRan =>
         LET direction ==
                 IF system.solarEnabled
                 THEN computeSolarContext(DateOf(startMs, timeMs')).sunDirection
                 ELSE STATIC_SUN_DIRECTION
         IN  /\ sunLight'.intensity = IF system.solarEnabled THEN 192 ELSE 165
             /\ sunLight'.position = SunPosition(direction)
             /\ (nightLightsMesh # NoMesh) => nightLightsMesh'.sunDirection = direction
             /\ (atmosphereMesh # NoMesh) => atmosphereMesh'.sunDirection = direction]_vars

\* A frame has run with the solar toggle off: the light and both uniforms
\* hold the static direction, not the one the solar context of the frame has.
C15_Witness ==
    /\ frame >= 1
    /\ ~system.solarEnabled
    /\ sunLight.intensity = 165
    /\ sunLight.position = SunPosition(STATIC_SUN_DIRECTION)
    /\ nightLightsMesh # NoMesh
    /\ nightLightsMesh.sunDirection = STATIC_SUN_DIRECTION
    /\ atmosphereMesh.sunDirection = STATIC_SUN_DIRECTION
    /\ scratch.sunDirection # STATIC_SUN_DIRECTION

\* The fields of a context object, the reference of its sunDirection
\* followed.
ContextFields(context) == [context EXCEPT !.sunDirection = scratch.sunDirection]

\* C16: the fields of a context object computeSolarContext has returned,
\* its sunDirection included, are not changed by any later step.
C16_ContextImmutable ==
    [][(aligned # NoContext) => ContextFields(aligned)' = ContextFields(aligned)]_vars

\* The days of the months of year y.
MonthDays(y) ==
    LET leap == (y % 4 = 0 /\ y % 100 # 0) \/ y % 400 = 0
    IN  <<31, IF leap THEN 29 ELSE 28, 31, 30, 31, 30, 31, 31, 30, 31, 30, 31>>

RECURSIVE DaysBefore(_, _)
DaysBefore(y, m) == IF m = 1 THEN 0 ELSE MonthDays(y)[m - 1] + DaysBefore(y, m - 1)

\* The 1-based index in its year of the civil date c.
DayIndex(c) == DaysBefore(c.y, c.m) + c.d

\* The probe holds the solar context of a valid instant.
SolarProbed == probe.fn = "computeSolarContext" /\ NewDate(probe.time).valid

\* C17: for every valid UTC instant the simulation clock hands to
\* computeSolarContext, which are the instants from the load on (timeMs is
\* Date.now() at main.js:500 and only grows at main.js:1050), dayOfYear is
\* the 1-based index of the UTC day in its year, an integer in [1, 366],
\* dayProgress is in [0, 1) and subsolarLon in (-180, 180] degrees.  The
\* instants probed are 1 January, 31 December and 29 February of leap and
\* common years, at the first and the last millisecond of the day and at
\* noon, and every day of the year that follows each of them.
C17_ContextRanges ==
    SolarProbed =>
        LET context == probe.out.context
        IN  /\ ~probe.out.isNaN
            /\ context.dayOfYear \in 1..366
            /\ context.dayOfYear = DayIndex(CivilOfDay(probe.time.day))
            /\ context.dayProgress >= 0
            /\ context.dayProgress < 360 * DegUnit
            /\ context.subsolarLon > -180 * DegUnit
            /\ context.subsolarLon <= 180 * DegUnit

\* The last millisecond of 31 December 2028, a leap year, was probed: it is
\* day 366, and the direction of the sun is in scratch.sunDirection.
C17_Witness ==
    /\ SolarProbed
    /\ probe.time.day = 21549
    /\ probe.time.ms = MsPerDay - 1
    /\ probe.out.context.dayOfYear = 366
    /\ probe.out.context.dayProgress > 359 * DegUnit
    /\ scratch.sunDirection = probe.out.context.sunDirection

\* C18: subsolarLat is within [-23.5, 23.5] degrees at every instant of a
\* full year swept in steps of one day.
C18_SubsolarLatRange ==
    SolarProbed =>
        /\ ~probe.out.isNaN
        /\ probe.out.context.subsolarLat >= -47 * (DegUnit \div 2)
        /\ probe.out.context.subsolarLat <= 47 * (DegUnit \div 2)

\* The sweep from 1 January 2025 has reached the June solstice, where
\* subsolarLat is above 23.4 degrees, and after it the end of the year.
C18_Witness ==
    /\ SolarProbed
    /\ probe.swept = 171
    /\ probe.time.day = 20089 + 171
    /\ probe.out.context.subsolarLat > 234 * (DegUnit \div 10)
    /\ scratch.sunDirection = probe.out.context.sunDirection

\* The deltas, in ms, the timer of the readouts has added up: the double
\* is within 2^-50 of their sum.
Millis(timer) == RDiv((timer.hi \div 2 ^ 12) * 1000, 2 ^ 20)

\* C20 as stated: a frame refreshes the readouts exactly when the delta
\* accumulated since the last refresh reaches 0.2 s with it, and the
\* accumulator then restarts from 0; until then the frame adds its delta to
\* the accumulator and leaves the readouts as they are.
C20_ReadoutThrottle ==
    [][FrameRan =>
         IF Millis(readoutTimer) + FrameDelta < 200
         THEN /\ Millis(readoutTimer') = Millis(readoutTimer) + FrameDelta
              /\ readout' = readout
         ELSE /\ readoutTimer' = DoubleZero
              /\ readout'.shown
              /\ readout'.utc = formatUtc(DateOf(startMs, timeMs'))]_vars

\* C20, amended: the accumulator is a double and adds the deltas up with
\* rounding.  A frame refreshes the readouts exactly when the accumulator,
\* with the delta of the frame added, is not below the double 0.2, and the
\* accumulator then restarts from 0; until then the frame leaves the sum in
\* the accumulator and the readouts as they are.  At a refresh at least
\* 0.2 s of delta has accumulated since the one before; a frame with which
\* more than 0.2 s has accumulated refreshes; a frame with which exactly
\* 0.2 s has accumulated refreshes unless the rounded sum is below 0.2.
C20_ThrottleRounded ==
    [][FrameRan =>
         /\ DoubleLess(readoutTimer, Seconds(200))
         /\ IF DoubleLess(DoubleAdd(readoutTimer, Seconds(FrameDelta)), Seconds(200))
            THEN /\ readoutTimer' = DoubleAdd(readoutTimer, Seconds(FrameDelta))
                 /\ readout' = readout
                 /\ Millis(readoutTimer) + FrameDelta <= 200
            ELSE /\ readoutTimer' = DoubleZero
                 /\ readout'.shown
                 /\ readout'.utc = formatUtc(DateOf(startMs, timeMs'))
                 /\ Millis(readoutTimer) + FrameDelta >= 200]_vars

\* Eleven frames have run, the last ten 20 ms after the one before: their
\* deltas add up to 0.19999999999999998, the readouts have not been
\* refreshed yet, and the frame they wait for is the twelfth.
C20_Witness ==
    /\ frame = 11
    /\ timeMs = 10 * 20 * 60
    /\ Millis(readoutTimer) = 200
    /\ DoubleLess(readoutTimer, Seconds(200))
    /\ ~readout.shown

\* The buffers of a layer have the size createFlowLayer gives them: count
\* seeds, and 2 * count * 3 numbers in the position and in the colour buffer.
WellSized(layer) ==
    /\ layer.count = Len(layer.seeds)
    /\ layer.speedRange > 0
    /\ DOMAIN layer.positionArray = 1..(2 * layer.count * 3)
    /\ DOMAIN layer.colorArray = 1..(2 * layer.count * 3)

\* The step leaves the layer in place with its count, seeds, speed range and
\* buffer sizes.
SameAllocation(before, after) ==
    /\ after # NoLayer
    /\ after.id = before.id
    /\ after.count = before.count
    /\ after.seeds = before.seeds
    /\ after.speedRange = before.speedRange
    /\ DOMAIN after.positionArray = DOMAIN before.positionArray
    /\ DOMAIN after.colorArray = DOMAIN before.colorArray

\* C21: the wind layer and the current layer are created together, one of
\* each, with a positive speed range and buffers of 2 * count * 3 numbers;
\* once a layer is there no step of any boot path, no frame and no toggle
\* creates it again or changes its count, its seeds, its speed range or the
\* size of its buffers.
C21_LayersAllocatedOnce ==
    /\ []((windLayer = NoLayer) = (currentLayer = NoLayer))
    /\ [](windLayer # NoLayer => windLayer.id = "wind" /\ WellSized(windLayer))
    /\ [](currentLayer # NoLayer =>
            currentLayer.id = "current" /\ WellSized(currentLayer))
    /\ [][/\ windLayer # NoLayer => SameAllocation(windLayer, windLayer')
          /\ currentLayer # NoLayer => SameAllocation(currentLayer, currentLayer')]_vars

\* The boot timer won the race, a frame then updated both layers, the wind
\* toggle was switched off after it, and a texture arrived in the end.
C21_Witness ==
    /\ loading.race = "rejected"
    /\ loading.requests["earthDay"] = "loaded"
    /\ frame = 1
    /\ windLayer # NoLayer /\ currentLayer # NoLayer
    /\ windLayer.meanSpeed > 0 /\ currentLayer.meanSpeed > 0
    /\ ~system.windEnabled

\* The earth, its meshes and the two layers are there, the boot is finished
\* and the animation loop is started.
Booted ==
    /\ earthMaterial # NoMaterial
    /\ atmosphereMesh # NoMesh
    /\ windLayer # NoLayer
    /\ currentLayer # NoLayer
    /\ boot.bootDone
    /\ boot.meshesReady
    /\ boot.loop

\* The step builds nothing where the earth is already there: the meshes
\* that are missing stay missing and the layers keep their particles.
NothingRebuilt ==
    /\ earthMaterial' # NoMaterial
    /\ (cloudsMesh' = NoMesh) = (cloudsMesh = NoMesh)
    /\ (nightLightsMesh' = NoMesh) = (nightLightsMesh = NoMesh)
    /\ atmosphereMesh' # NoMesh
    /\ SameAllocation(windLayer, windLayer')
    /\ SameAllocation(currentLayer, currentLayer')
    /\ boot' = boot

\* bootstrap() has called runBootSequence(): the five textures are requested
\* and the boot timer is set.
BootStarted == loading.startup = "started"

\* C26: whatever the outcome of each of the five texture requests (loaded,
\* failed, no answer) and whether or not the boot timer runs, the boot that
\* has requested them completes: in the end the earth and both layers are
\* there, bootDone and meshesReady are true and the animation loop is
\* started; the loop is never started before the earth and both layers are
\* there; and the earth and the layers are built once, also when textures
\* arrive after the boot timer has won.
C26_BootCompletes ==
    /\ BootStarted ~> Booted
    /\ [](boot.loop => Booted)
    /\ [][earthMaterial # NoMaterial => NothingRebuilt]_vars

\* The boot timer ran first and the boot fell back to the earth without
\* clouds; the clouds texture arrived afterwards and the loop is running.
C26_Witness ==
    /\ Booted
    /\ loading.timer = "fired"
    /\ loading.race = "rejected"
    /\ loading.requests["earthClouds"] = "loaded"
    /\ loading.requests["earthNight"] = "timeout"
    /\ cloudsMesh = NoMesh
    /\ frame = 1

\* updateFlowLayer was applied to an input particle.
Advected == probe.fn = "updateFlowLayer"

\* C23: the two divisions by the cosine of a latitude in the advection, the
\* one of the longitude advance and the one of the end point of the streak,
\* divide by at least 0.2, so that the longitude advance is at most five
\* times the zonal step, for every latitude from -85 to 85 degrees.
C23_CosineFloor ==
    Advected /\ Abs(probe.lat) <= 85 * DegUnit =>
        /\ probe.out.cosLat >= 2000
        /\ probe.out.endCosLat >= 2000
        /\ Abs(probe.out.endLat) <= 85 * DegUnit
        /\ Abs(probe.out.rawLon - probe.lon)
             <= 5 * Abs(AngleStep(probe.out.u, probe.drift)) + 1

\* A particle at 85 degrees, where the cosine is under 0.2, was moved east
\* or west by five times its zonal step.
C23_Witness ==
    /\ Advected
    /\ probe.lat = 85 * DegUnit
    /\ CosDeg(probe.lat) < 2000
    /\ CosDeg(probe.out.endLat) < 2000
    /\ probe.out.rawLon # probe.lon
    /\ Abs(Abs(probe.out.rawLon - probe.lon)
            - 5 * Abs(AngleStep(probe.out.u, probe.drift))) <= 1

\* C24: a particle moved beyond 84 degrees north is put back at
\* 84 - (lat - 84) with 180 degrees added to its longitude before the
\* normalisation, and likewise beyond 84 degrees south; a particle that is
\* not beyond gets no such shift; the frame delta being at most 0.05 s,
\* the latitude stored for an updated particle is within 84 degrees.  A
\* latitude is beyond a line when it is so by more than the resolution of
\* the sampled speed, and on the side the comparison found it otherwise.
C24_PoleReflection ==
    Advected =>
        LET raw   == probe.out.rawLat
            lon   == probe.out.rawLon
            slack == IF probe.drift = 0 THEN 0
                     ELSE AngleStep(SampleSlack, probe.drift) + 1
            north == \/ raw - slack > 84 * DegUnit
                     \/ probe.out.side = "north" /\ raw + slack > 84 * DegUnit
            south == \/ raw + slack < -84 * DegUnit
                     \/ probe.out.side = "south" /\ raw - slack < -84 * DegUnit
        IN  /\ north =>
                  /\ probe.out.lat
                       = Fround(84 * DegUnit - (Max(raw, 84 * DegUnit) - 84 * DegUnit))
                  /\ probe.out.lon = Fround(normalizeLongitude(lon + 180 * DegUnit))
            /\ south =>
                  /\ probe.out.lat
                       = Fround(-84 * DegUnit - (Min(raw, -84 * DegUnit) + 84 * DegUnit))
                  /\ probe.out.lon = Fround(normalizeLongitude(lon + 180 * DegUnit))
            /\ ~north /\ ~south =>
                  /\ probe.out.lat = Fround(clamp(raw, -84 * DegUnit, 84 * DegUnit))
                  /\ probe.out.lon = Fround(normalizeLongitude(lon))
            /\ Abs(probe.out.lat) <= 84 * DegUnit

\* A particle just south of 84 degrees north was carried across it by the
\* field and came back on the other side of the pole.
C24_Witness ==
    /\ Advected
    /\ probe.lat < 84 * DegUnit
    /\ probe.out.rawLat > 84 * DegUnit
    /\ probe.out.lat < 84 * DegUnit
    /\ Abs(probe.out.lon - probe.lon) > 90 * DegUnit

\* The flow layers that exist, each with its toggle and with the layer the
\* step leaves.
LayerSteps ==
    { e \in { [layer |-> windLayer, after |-> windLayer',
               enabled |-> system.windEnabled],
              [layer |-> currentLayer, after |-> currentLayer',
               enabled |-> system.currentEnabled] } :
        e.layer # NoLayer }

\* The latitudes a frame of clamped delta ms that samples the field with
\* solarContext can store for particle i of layer: the meridional speed
\* times speedToDegrees times delta is added, whatever the time scale, and
\* the sum is reflected at the pole line it is beyond, or within the
\* resolution of the sampled speed of.  The speed is one of those the
\* sampler can return for the particle.
LatitudeAfter(layer, i, delta, solarContext) ==
    UNION { LET drift == layer.speedToDegrees * delta
                raw   == layer.latitudes[i] + AngleStep(sampled.v, drift)
                slack == IF drift = 0 THEN 0 ELSE AngleStep(SampleSlack, drift) + 1
            IN  { Fround(84 * DegUnit - (Max(raw, 84 * DegUnit) - 84 * DegUnit)) :
                    x \in { y \in {raw} : y + slack > 84 * DegUnit } }
                \cup { Fround(-84 * DegUnit - (Min(raw, -84 * DegUnit) + 84 * DegUnit)) :
                         x \in { y \in {raw} : y - slack < -84 * DegUnit } }
                \cup { Fround(clamp(raw, -84 * DegUnit, 84 * DegUnit)) :
                         x \in { y \in {raw} : y - slack <= 84 * DegUnit
                                                /\ y + slack >= -84 * DegUnit } } :
            sampled \in Samples(layer, layer.latitudes[i], layer.longitudes[i],
                                solarContext, layer.seeds[i]) }

\* C25: the change event of the time-speed select changes timeScale and
\* nothing else: the simulated time, the particles, the aggregates and the
\* toggles stay as they are; the scale enters with the clock advance of the
\* next frame, delta times the scale of the moment; and the step of a
\* particle in a frame is its speed times speedToDegrees times the clamped
\* delta, with no time scale in it.
C25_TimeScaleChange ==
    [][/\ timeScale' # timeScale =>
            UNCHANGED <<startMs, timeMs, readoutTimer, system, windLayer, currentLayer,
                        earthMaterial, sunLight, clock, frame, boot, sceneVars, probe>>
       /\ FrameRan =>
            /\ timeScale' = timeScale
            /\ timeMs' = timeMs + FrameDelta * timeScale
            /\ \A e \in LayerSteps :
                 e.enabled =>
                   \A i \in 1..e.layer.count :
                     e.after.latitudes[i]
                       \in LatitudeAfter(e.layer, i, FrameDelta,
                                         computeSolarContext(DateOf(startMs, timeMs')))]_vars

\* The time scale was raised from 60 to 600 between two frames of 16 ms:
\* the first advanced the clock by 16 * 60 ms, the second by 16 * 600 ms,
\* and both moved the wind particles.
C25_Witness ==
    /\ timeScale = 600
    /\ frame = 3
    /\ clock.elapsedTime = 32
    /\ timeMs = 16 * 60 + 16 * 600
    /\ windLayer # NoLayer
    /\ windLayer.visible
    /\ windLayer.meanSpeed > 0

\* The speeds of the field at particle i of layer: one, or those of the
\* signs the meridional wind can have there.
SpeedsAt(layer, i, solarContext) ==
    { Hypot(sampled.u, sampled.v) :
        sampled \in Samples(layer, layer.latitudes[i], layer.longitudes[i],
                            solarContext, layer.seeds[i]) }

\* The means of the speeds of the field at the particles of layer, one for
\* each choice of a speed for every particle.
MeanSpeedAt(layer, solarContext) ==
    { SumTo(speeds, layer.count) \div layer.count :
        speeds \in { f \in [1..layer.count ->
                              UNION { SpeedsAt(layer, i, solarContext) :
                                        i \in 1..layer.count }] :
                       \A i \in 1..layer.count : f[i] \in SpeedsAt(layer, i, solarContext) } }

\* C27: from the moment a layer is there, the visibility of its group is
\* the value of its toggle in every state between two handlers, whatever the
\* order of the toggles (those before the layer was created included) and
\* of the frames; a frame therefore takes the disabled branch of
\* updateFlowLayer exactly when the toggle is off: then the particles and
\* the buffers stay and the aggregates are 0, and with the toggle on the
\* buffers are written and the mean speed is that of the field.
C27_VisibleFollowsToggle ==
    /\ [](\A e \in Layers : e.layer.visible = e.enabled)
    /\ [][FrameRan =>
            \A e \in LayerSteps :
              /\ ~e.enabled =>
                   e.after = [e.layer EXCEPT !.meanSpeed = 0, !.meanZonal = 0]
              /\ e.enabled =>
                   /\ ~IsZero(e.after.positionArray)
                   /\ ~IsZero(e.after.colorArray)
                   /\ e.after.meanSpeed
                        \in MeanSpeedAt(e.layer,
                                      computeSolarContext(DateOf(startMs, timeMs')))]_vars

\* The wind toggle was switched off before the layers were created, and on
\* again after a frame that found it off; the current layer was updated by
\* every frame.
C27_Witness ==
    /\ windLayer # NoLayer
    /\ windLayer.visible
    /\ system.windEnabled
    /\ IsZero(windLayer.positionArray)
    /\ windLayer.meanSpeed = 0
    /\ currentLayer.meanSpeed > 0
    /\ frame = 1

\* state.system with the solar toggle the other way.
SolarFlipped == [system EXCEPT !.solarEnabled = ~@]

\* C28: the solar toggle bears on the lighting alone.  Its change event
\* changes the toggle and nothing else.  Whether it is on or off, a frame
\* advances the clock by delta times the time scale, computes the solar
\* context of the new time into scratch.sunDirection and updates both layers
\* with that context: each particle moves by the field sampled with it and
\* the mean speed is that of the field; the coupling outputs (the shininess
\* and specular colour of the earth, the turn of the clouds) are what they
\* would be with the toggle the other way.
C28_SolarToggleLightingOnly ==
    [][/\ system'.solarEnabled # system.solarEnabled =>
            /\ system' = SolarFlipped
            /\ UNCHANGED <<startMs, timeMs, timeScale, readoutTimer, windLayer,
                           currentLayer, earthMaterial, sunLight, clock, frame, boot,
                           sceneVars, probe>>
       /\ FrameRan =>
            LET solarContext == computeSolarContext(DateOf(startMs, timeMs'))
            IN  /\ timeMs' = timeMs + FrameDelta * timeScale
                /\ scratch'.sunDirection = solarContext.sunDirection
                /\ \A e \in LayerSteps :
                     e.enabled =>
                       /\ \A i \in 1..e.layer.count :
                            e.after.latitudes[i]
                              \in LatitudeAfter(e.layer, i, FrameDelta, solarContext)
                       /\ e.after.meanSpeed \in MeanSpeedAt(e.layer, solarContext)
                /\ earthMaterial'
                     = applyCoupling(earthMaterial, SolarFlipped, windLayer',
                                     currentLayer')
                /\ cloudsMesh'
                     = rotateClouds(cloudsMesh, FrameDelta,
                                    getCloudDriftSpeed(SolarFlipped, windLayer,
                                                       timeScale))]_vars

\* With the solar toggle off, three frames have run: the light is the fixed
\* one, the clock has advanced, scratch.sunDirection holds a computed
\* direction and both layers were updated.
C28_Witness ==
    /\ ~system.solarEnabled
    /\ frame = 3
    /\ clock.elapsedTime = 32
    /\ timeMs = 32 * 60
    /\ sunLight.intensity = 165
    /\ sunLight.position = SunPosition(STATIC_SUN_DIRECTION)
    /\ scratch.sunDirection # STATIC_SUN_DIRECTION
    /\ scratch.sunDirection # <<0, 0, 0>>
    /\ windLayer # NoLayer /\ windLayer.meanSpeed > 0
    /\ currentLayer # NoLayer /\ currentLayer.meanSpeed > 0

=============================================================================
